---- MODULE Spec2Model ----
(***************************************************************************)
(* Verification model of the ner-core sequence-labelling engine:           *)
(* the BIO tag vocabulary, BIO -> span reconstruction, the CRF scorer and   *)
(* its Viterbi decoder, the HMM, MaxEnt, averaged-perceptron and span      *)
(* taggers, and the pipeline that dispatches to them.                      *)
(*                                                                         *)
(* Conventions.                                                            *)
(*  - A Rust String is a sequence of one-character strings, so that        *)
(*    formatting and parsing are computed, not assumed.                    *)
(*  - f64 scores are integers: every weight the model draws is a small     *)
(*    integer, on which f64 addition and multiplication are exact.         *)
(*  - Option<T> is a record [some, val]; None carries a dummy val.         *)
(*  - A panic (index out of bounds, unwrap of None) is the value Panic.    *)
(***************************************************************************)
EXTENDS Integers, Sequences, FiniteSets, TLC

VARIABLES
    op,      \* name of the last operation that ran ("init" before any)
    arg,     \* its input
    ret,     \* its output
    calls,   \* number of state-changing calls made so far (bounded by the model)
    crf,     \* the CrfModel: [emission_weights, transition_weights]
    perc,    \* the PerceptronModel
    hmm,     \* the HmmModel
    maxent,  \* the MaxEntModel
    span,    \* the SpanModel
    inflight \* the calls in flight: their position, locals and channels

vars == <<op, arg, ret, calls, crf, perc, hmm, maxent, span, inflight>>

\* what a call of a pure function or of a &self method leaves alone
state == <<calls, crf, perc, hmm, maxent, span, inflight>>

\* the models a NerPipeline holds
models == <<crf, perc, hmm, maxent, span>>

----------------------------------------------------------------------------
(* Bounds of the model *)

\* label strings handed to Tag::from_label are up to MaxSegs pieces joined by '-'
MaxSegs == 3

\* tagged-token sequences handed to tokens_to_spans have up to MaxSpanTokens tokens
MaxSpanTokens == 4

\* at most MaxSets calls of set_emission / set_transition on a CrfModel
MaxSets == 1

\* feature-vector sequences handed to viterbi_decode and token sequences handed
\* to predict have up to MaxTokens elements
MaxTokens == 2

\* at most MaxTrains calls of train
MaxTrains == 1

\* a sentence of a training corpus has up to MaxSentLen annotated tokens
MaxSentLen == 2

\* score vectors handed to scores_to_probs have up to MaxScores scores
MaxScores == 3

\* exp gives 0.0 for a difference of ExpUnderflow or more below the maximum
ExpUnderflow == 4

----------------------------------------------------------------------------
(* Generic helpers *)

Some(x) == [some |-> TRUE, val |-> x]

RECURSIVE SeqsUpTo(_, _)
\* all sequences over S of length 0..n
SeqsUpTo(S, n) ==
    IF n = 0 THEN {<<>>}
    ELSE LET shorter == SeqsUpTo(S, n - 1)
         IN shorter \cup {Append(s, x) : s \in {t \in shorter : Len(t) = n - 1}, x \in S}

----------------------------------------------------------------------------
(* tagger.rs: EntityCategory and Tag *)

EntityCategory == {"Per", "Org", "Loc", "Misc"}

EntityCategory_name(c) ==
    CASE c = "Per"  -> <<"P", "E", "R">>
      [] c = "Org"  -> <<"O", "R", "G">>
      [] c = "Loc"  -> <<"L", "O", "C">>
      [] c = "Misc" -> <<"M", "I", "S", "C">>

EntityCategory_from_str(s) ==
    CASE s = <<"P", "E", "R">>      -> Some("Per")
      [] s = <<"O", "R", "G">>      -> Some("Org")
      [] s = <<"L", "O", "C">>      -> Some("Loc")
      [] s = <<"M", "I", "S", "C">> -> Some("Misc")
      [] OTHER                      -> [some |-> FALSE, val |-> "-"]

Outside == [kind |-> "Outside", cat |-> "-"]
Begin(c) == [kind |-> "Begin", cat |-> c]
Inside(c) == [kind |-> "Inside", cat |-> c]

NoTag == [some |-> FALSE, val |-> Outside]

Tag_COUNT == 9

Tag_all ==
    << Outside,
       Begin("Per"),  Inside("Per"),
       Begin("Org"),  Inside("Org"),
       Begin("Loc"),  Inside("Loc"),
       Begin("Misc"), Inside("Misc") >>

Tag == {Tag_all[k] : k \in 1..Len(Tag_all)}

\* mutant: Inside is formatted with the Begin prefix
label_begin_prefix(t) ==
    CASE t.kind = "Begin"   -> <<"B", "-">> \o EntityCategory_name(t.cat)
      [] t.kind = "Inside"  -> <<"B", "-">> \o EntityCategory_name(t.cat)
      [] t.kind = "Outside" -> <<"O">>

label(t) ==
    CASE t.kind = "Begin"   -> <<"B", "-">> \o EntityCategory_name(t.cat)
      [] t.kind = "Inside"  -> <<"I", "-">> \o EntityCategory_name(t.cat)
      [] t.kind = "Outside" -> <<"O">>

\* mutant: the category is ignored, Begin is 1 and Inside is 2
index_by_kind(t) ==
    CASE t.kind = "Outside" -> 0
      [] t.kind = "Begin"   -> 1
      [] t.kind = "Inside"  -> 2

index(t) ==
    CASE t = Outside        -> 0
      [] t = Begin("Per")   -> 1
      [] t = Inside("Per")  -> 2
      [] t = Begin("Org")   -> 3
      [] t = Inside("Org")  -> 4
      [] t = Begin("Loc")   -> 5
      [] t = Inside("Loc")  -> 6
      [] t = Begin("Misc")  -> 7
      [] t = Inside("Misc") -> 8

category(t) ==
    IF t.kind \in {"Begin", "Inside"} THEN Some(t.cat)
    ELSE [some |-> FALSE, val |-> "-"]

\* mutant: the category of the predecessor is not compared
is_valid_transition_any_cat(prev, next) ==
    IF next.kind = "Inside"
    THEN prev.kind \in {"Begin", "Inside"}
    ELSE TRUE

is_valid_transition(prev, next) ==
    IF next.kind = "Inside"
    THEN IF prev.kind \in {"Begin", "Inside"} THEN prev.cat = next.cat ELSE FALSE
    ELSE TRUE

\* position of the first occurrence of character c in s, 0 if there is none
FirstIndexOf(s, c) ==
    IF \E i \in 1..Len(s) : s[i] = c
    THEN CHOOSE i \in 1..Len(s) : s[i] = c /\ \A j \in 1..(i - 1) : s[j] # c
    ELSE 0

\* str::splitn(2, c): at most two parts, split at the first c
splitn2(s, c) ==
    LET i == FirstIndexOf(s, c)
    IN IF i = 0 THEN <<s>>
       ELSE <<SubSeq(s, 1, i - 1), SubSeq(s, i + 1, Len(s))>>

\* mutant: every prefix other than "I" is read as Begin
from_label_any_prefix(s) ==
    IF s = <<"O">> THEN Some(Outside)
    ELSE LET parts == splitn2(s, "-")
         IN IF Len(parts) # 2 THEN NoTag
            ELSE LET cat == EntityCategory_from_str(parts[2])
                 IN IF ~cat.some THEN NoTag
                    ELSE IF parts[1] = <<"I">> THEN Some(Inside(cat.val))
                         ELSE Some(Begin(cat.val))

from_label(s) ==
    IF s = <<"O">> THEN Some(Outside)
    ELSE LET parts == splitn2(s, "-")
         IN IF Len(parts) # 2 THEN NoTag
            ELSE LET cat == EntityCategory_from_str(parts[2])
                 IN IF ~cat.some THEN NoTag
                    ELSE CASE parts[1] = <<"B">> -> Some(Begin(cat.val))
                           [] parts[1] = <<"I">> -> Some(Inside(cat.val))
                           [] OTHER              -> NoTag

----------------------------------------------------------------------------
(* Maps with absent keys (HashMap) *)

EmptyMap == <<>>

Put(m, k, v) == [x \in (DOMAIN m) \cup {k} |-> IF x = k THEN v ELSE m[x]]

\* HashMap::get(k).unwrap_or(dflt)
GetOr(m, k, dflt) == IF k \in DOMAIN m THEN m[k] ELSE dflt

RECURSIVE SumOver(_, _)
\* sum of f[x] over the set S, f a function
SumOver(S, f) ==
    IF S = {} THEN 0
    ELSE LET x == CHOOSE y \in S : TRUE IN f[x] + SumOver(S \ {x}, f)

----------------------------------------------------------------------------
(* features.rs FeatureVector; crf.rs CrfModel *)

FeatureVector(i, features) == [token_index |-> i, features |-> features]

CrfModel_new ==
    [ emission_weights   |-> EmptyMap,
      transition_weights |-> [i \in 0..(Tag_COUNT - 1) |-> [j \in 0..(Tag_COUNT - 1) |-> 0]] ]

\* the key format!("{feat_name}|{tag_label}")
EmissionKey(feat_name, tag) == <<feat_name, label(tag)>>

\* mutant: the weight is looked up under the feature alone's first tag
emission_score_sticky(model, features, tag) ==
    LET fs == features.features
    IN SumOver(DOMAIN fs,
               [f \in DOMAIN fs |->
                   fs[f] * GetOr(model.emission_weights, EmissionKey(f, Outside), 0)])

\* mutant: the feature values are taken for 1.0
emission_score_flags(model, features, tag) ==
    LET fs == features.features
    IN SumOver(DOMAIN fs,
               [f \in DOMAIN fs |-> GetOr(model.emission_weights, EmissionKey(f, tag), 0)])

emission_score(model, features, tag) ==
    LET fs == features.features
    IN SumOver(DOMAIN fs,
               [f \in DOMAIN fs |->
                   fs[f] * GetOr(model.emission_weights, EmissionKey(f, tag), 0)])

transition_score(model, prev, next) ==
    model.transition_weights[index(prev)][index(next)]

set_emission(model, feature, tag, weight) ==
    [model EXCEPT !.emission_weights = Put(@, EmissionKey(feature, tag), weight)]

set_transition(model, from, to, weight) ==
    [model EXCEPT !.transition_weights[index(from)][index(to)] = weight]

\* one value per tag, in Tag::all() order, each computed once
EachTag(F(_)) == <<F(1), F(2), F(3), F(4), F(5), F(6), F(7), F(8), F(9)>>

compute_emission_scores(model, feature_vectors) ==
    [i \in 1..Len(feature_vectors) |->
        LET E(t) == emission_score(model, feature_vectors[i], Tag_all[t])
        IN EachTag(E)]

----------------------------------------------------------------------------
(* viterbi.rs *)

\* f64::NEG_INFINITY: below every score the model can form
NEG_INFINITY == -1000000

\* the constant subtracted for a transition that breaks the BIO grammar
BIO_PENALTY == 10

RECURSIVE best_in_slice_from(_, _, _)
\* Iterator::max_by keeps the last of several equal maxima
best_in_slice_from(scores, k, best) ==
    IF k > Len(scores) THEN best
    ELSE best_in_slice_from(scores, k + 1,
            IF scores[k] >= best.score THEN [idx |-> k, score |-> scores[k]] ELSE best)

\* (index, value) of the maximum of a non-empty slice; index is 1-based here
best_in_slice(scores) ==
    best_in_slice_from(scores, 2, [idx |-> 1, score |-> scores[1]])

RECURSIVE best_prev_from(_, _, _, _, _)
\* the loop over prev_t for one tag t: strict >, so the first maximum is kept
best_prev_from(model, viterbi, t, prev_t, best) ==
    IF prev_t > Tag_COUNT THEN best
    ELSE LET trans == transition_score(model, Tag_all[prev_t], Tag_all[t])
             score == viterbi[prev_t] + trans
         IN best_prev_from(model, viterbi, t, prev_t + 1,
                IF score > best.score
                THEN [score |-> score, prev |-> prev_t, transition |-> trans]
                ELSE best)

\* mutant: the penalty is never applied
bio_penalty_none(prev, next) == 0

bio_penalty(prev, next) ==
    IF ~is_valid_transition(prev, next) THEN BIO_PENALTY ELSE 0

\* the TagScore of tag t at token i >= 2, from the previous column; backptr is
\* backptr[i][t] (kept beside the score it belongs to), as a position of Tag::all()
viterbi_cell(model, viterbi, emission_i, t) ==
    LET best == best_prev_from(model, viterbi, t, 1,
                               [score |-> NEG_INFINITY, prev |-> 1, transition |-> 0])
    IN [ tag        |-> label(Tag_all[t]),
         score      |-> best.score + emission_i[t]
                          - bio_penalty(Tag_all[best.prev], Tag_all[t]),
         best_prev  |-> label(Tag_all[best.prev]),
         backptr    |-> best.prev,
         emission   |-> emission_i[t],
         transition |-> best.transition ]

ScoresOf(cells) == [t \in 1..Len(cells) |-> cells[t].score]

\* mutant: the step reports its first tag and score as the best
ViterbiStep_first(i, cells) ==
    [ token_index |-> i,
      scores      |-> cells,
      best_tag    |-> label(Tag_all[1]),
      best_score  |-> cells[1].score ]

ViterbiStep(i, cells) ==
    LET best == best_in_slice(ScoresOf(cells))
    IN [ token_index |-> i,
         scores      |-> cells,
         best_tag    |-> label(Tag_all[best.idx]),
         best_score  |-> best.score ]

\* the initialisation column (token 0): emission only, back-pointer to itself
viterbi_first(emission_0) ==
    LET C(t) == [ tag        |-> label(Tag_all[t]),
                  score      |-> emission_0[t],
                  best_prev  |-> label(Tag_all[t]),
                  backptr    |-> t,
                  emission   |-> emission_0[t],
                  transition |-> 0 ]
    IN ViterbiStep(0, EachTag(C))

RECURSIVE viterbi_steps(_, _, _)
\* the recursion over tokens: steps holds the columns built so far
viterbi_steps(model, emission, steps) ==
    IF Len(steps) = Len(emission) THEN steps
    ELSE LET i == Len(steps) + 1
             viterbi == ScoresOf(steps[i - 1].scores)
             C(t) == viterbi_cell(model, viterbi, emission[i], t)
         IN viterbi_steps(model, emission, Append(steps, ViterbiStep(i - 1, EachTag(C))))

\* mutant: the back-pointers are not followed, the last tag is repeated
backtrack_stay(steps, i, best_last, acc) ==
    [k \in 1..i |-> Tag_all[best_last]] \o acc

RECURSIVE backtrack(_, _, _, _)
\* best_sequence[i] for i from n-1 down to 1, following backptr[i + 1]
backtrack(steps, i, best_last, acc) ==
    IF i = 0 THEN acc
    ELSE LET prev == steps[i + 1].scores[best_last].backptr
         IN backtrack(steps, i - 1, prev, <<Tag_all[prev]>> \o acc)

viterbi_decode(model, feature_vectors) ==
    IF Len(feature_vectors) = 0
    THEN [best_sequence |-> <<>>, best_score |-> 0, steps |-> <<>>]
    ELSE LET n_tokens == Len(feature_vectors)
             emission == compute_emission_scores(model, feature_vectors)
             steps == viterbi_steps(model, emission, <<viterbi_first(emission[1])>>)
             last == best_in_slice(ScoresOf(steps[n_tokens].scores))
         IN [ best_sequence |-> backtrack(steps, n_tokens - 1, last.idx,
                                          <<Tag_all[last.idx]>>),
              best_score    |-> last.score,
              steps         |-> steps ]

\* f64::exp of a difference x <= 0 of scores, as a numerator over
\* 2^(ExpUnderflow - 1): 1.0 at 0, strictly increasing, and 0.0 once -x
\* reaches ExpUnderflow, as exp underflows in f64. A power of two stands for
\* the power of e.
exp(x) == IF -x >= ExpUnderflow THEN 0 ELSE 2 ^ (ExpUnderflow - 1 + x)

RECURSIVE fold_max(_, _, _)
\* scores.iter().cloned().fold(f64::NEG_INFINITY, f64::max) from position k
fold_max(scores, k, acc) ==
    IF k > Len(scores) THEN acc
    ELSE fold_max(scores, k + 1, IF scores[k] > acc THEN scores[k] ELSE acc)

\* mutant: the exponentials are not divided by their sum
scores_to_probs_unnormalized(scores) ==
    LET max_score == fold_max(scores, 1, NEG_INFINITY)
    IN [i \in 1..Len(scores) |->
          [num |-> exp(scores[i] - max_score), den |-> exp(0)]]

\* a probability is the record [num, den] of the quotient num / den
scores_to_probs(scores) ==
    IF scores = <<>> THEN <<>>
    ELSE LET max_score == fold_max(scores, 1, NEG_INFINITY)
             exps == [i \in 1..Len(scores) |-> exp(scores[i] - max_score)]
             sum == SumOver(1..Len(scores), exps)
         IN IF sum = 0
            THEN [i \in 1..Len(scores) |-> [num |-> 1, den |-> Len(scores)]]
            ELSE [i \in 1..Len(scores) |-> [num |-> exps[i], den |-> sum]]

----------------------------------------------------------------------------
(* Characters: the classes of char the feature extractor tests *)

UpperChars == {"L", "S", "P", "É", "D", "A"}
LowerChars == {"l", "s", "p", "é", "u", "a", "o", "d", "r", "e", "t", "b", "i", "n"}
DigitChars == {"1", "9"}

is_uppercase(c) == c \in UpperChars
is_alphabetic(c) == c \in UpperChars \cup LowerChars
is_numeric(c) == c \in DigitChars
is_alphanumeric(c) == is_alphabetic(c) \/ is_numeric(c)

\* char::to_lowercase
to_lowercase_char(c) ==
    CASE c = "L" -> "l"
      [] c = "S" -> "s"
      [] c = "P" -> "p"
      [] c = "É" -> "é"
      [] c = "D" -> "d"
      [] c = "A" -> "a"
      [] OTHER -> c

\* str::to_lowercase
to_lowercase(s) == [k \in 1..Len(s) |-> to_lowercase_char(s[k])]

\* number of bytes of the UTF-8 encoding of c
len_utf8(c) == IF c \in {"é", "É"} THEN 2 ELSE 1

RECURSIVE str_len(_)
\* str::len: the length in bytes
str_len(s) == IF s = <<>> THEN 0 ELSE len_utf8(Head(s)) + str_len(Tail(s))

\* word.chars().next().map(|c| c.is_uppercase()).unwrap_or(false)
first_char_upper(word) == Len(word) > 0 /\ is_uppercase(word[1])

----------------------------------------------------------------------------
(* tokenizer.rs Token, tagger.rs TaggedToken / EntitySpan / tokens_to_spans *)

Token(text, start, end, idx) ==
    [text |-> text, start |-> start, end |-> end, index |-> idx]

TaggedToken(token, tag, confidence) ==
    [token |-> token, tag |-> tag, confidence |-> confidence]

IsWhitespace(c) == c = " "

RECURSIVE trim(_)
\* str::trim: leading and trailing whitespace removed
trim(s) ==
    IF Len(s) = 0 THEN s
    ELSE IF IsWhitespace(s[1]) THEN trim(Tail(s))
    ELSE IF IsWhitespace(s[Len(s)]) THEN trim(SubSeq(s, 1, Len(s) - 1))
    ELSE s

\* original_text[a..b], byte offsets (0-based, end exclusive) on char boundaries
Slice(text, a, b) ==
    LET offset(k) == str_len(SubSeq(text, 1, k - 1))
        chars_before(pos) == Cardinality({k \in 1..Len(text) : offset(k) < pos})
    IN SubSeq(text, chars_before(a) + 1, chars_before(b))

RECURSIVE SpanRunEnd_any_cat(_, _, _)
\* mutant: an Inside of any category continues the span
SpanRunEnd_any_cat(tagged, cat, j) ==
    IF j <= Len(tagged) /\ tagged[j].tag.kind = "Inside"
    THEN SpanRunEnd_any_cat(tagged, cat, j + 1)
    ELSE j

RECURSIVE SpanRunEnd(_, _, _)
\* the inner while loop: first position j' >= j (1-based) whose tag is not
\* Inside(cat), or Len(tagged) + 1
SpanRunEnd(tagged, cat, j) ==
    IF j <= Len(tagged) /\ tagged[j].tag = Inside(cat)
    THEN SpanRunEnd(tagged, cat, j + 1)
    ELSE j

RECURSIVE SumConfidence(_, _, _)
SumConfidence(tagged, i, j) ==
    IF i >= j THEN 0 ELSE tagged[i].confidence + SumConfidence(tagged, i + 1, j)

EntitySpan(tagged, text, i, j) ==
    [ text        |-> trim(Slice(text, tagged[i].token.start, tagged[j - 1].token.end)),
      category    |-> tagged[i].tag.cat,
      start_token |-> tagged[i].token.index,
      end_token   |-> tagged[j - 1].token.index,
      start       |-> tagged[i].token.start,
      end         |-> tagged[j - 1].token.end,
      \* conf_sum / count, kept as the exact quotient
      confidence  |-> [num |-> SumConfidence(tagged, i, j), den |-> j - i],
      source      |-> "crf" ]

RECURSIVE tokens_to_spans_from(_, _, _, _)
\* the outer while loop from position i (1-based), spans collected so far
tokens_to_spans_from(tagged, text, i, spans) ==
    IF i > Len(tagged) THEN spans
    ELSE IF tagged[i].tag.kind = "Begin"
    THEN LET j == SpanRunEnd(tagged, tagged[i].tag.cat, i + 1)
         IN tokens_to_spans_from(tagged, text, j,
                                 Append(spans, EntitySpan(tagged, text, i, j)))
    ELSE tokens_to_spans_from(tagged, text, i + 1, spans)

tokens_to_spans(tagged, text) == tokens_to_spans_from(tagged, text, 1, <<>>)

----------------------------------------------------------------------------
(* features.rs: extract_features *)

\* a feature name format!("{kind}{payload}"); a flag has the empty payload
Feat(kind, payload) == <<kind, payload>>

Flag(kind) == Feat(kind, <<>>)

\* the features inserted under a condition
When(cond, feats) == IF cond THEN feats ELSE {}

\* Gazetteers::new(): four empty sets
Gazetteers_new ==
    [persons |-> {}, locations |-> {}, organizations |-> {}, misc |-> {}]

PrefixKind(n) == CASE n = 2 -> "prefix2=" [] n = 3 -> "prefix3=" [] n = 4 -> "prefix4="
SuffixKind(n) == CASE n = 2 -> "suffix2=" [] n = 3 -> "suffix3=" [] n = 4 -> "suffix4="

\* prefix{n}= and suffix{n}= for n in 2..=4, when the word has at least n chars
\* mutant: a word of exactly n characters gets no prefix or suffix of n
AffixFeatures_longer(word) ==
    UNION { When(Len(word) > n,
                 { Feat(PrefixKind(n), to_lowercase(SubSeq(word, 1, n))),
                   Feat(SuffixKind(n),
                        to_lowercase(SubSeq(word, Len(word) - n + 1, Len(word)))) })
            : n \in 2..4 }

AffixFeatures(word) ==
    UNION { When(Len(word) >= n,
                 { Feat(PrefixKind(n), to_lowercase(SubSeq(word, 1, n))),
                   Feat(SuffixKind(n),
                        to_lowercase(SubSeq(word, Len(word) - n + 1, Len(word)))) })
            : n \in 2..4 }

\* the features of the neighbours of token i (1-based)
ContextFeatures(tokens, i) ==
    LET n == Len(tokens)
        lower(k) == to_lowercase(tokens[k].text)
    IN (IF i > 1
        THEN {Feat("prev_word=", lower(i - 1))}
             \cup When(first_char_upper(tokens[i - 1].text), {Flag("prev_is_capitalized")})
        ELSE {Flag("BOS")})
       \cup When(i > 2, {Feat("prev2_word=", lower(i - 2))})
       \cup (IF i + 1 <= n
             THEN {Feat("next_word=", lower(i + 1))}
                  \cup When(first_char_upper(tokens[i + 1].text),
                            {Flag("next_is_capitalized")})
             ELSE {Flag("EOS")})
       \cup When(i + 2 <= n, {Feat("next2_word=", lower(i + 2))})
       \cup When(i > 1 /\ i + 1 <= n,
                 {Feat("bigram=", lower(i - 1) \o <<"_">> \o lower(i + 1))})

GazetteerFeatures(word, gazetteers) ==
    LET hit(set) == to_lowercase(word) \in set \/ word \in set
    IN When(hit(gazetteers.persons), {Flag("in_person_gazetteer")})
       \cup When(hit(gazetteers.locations), {Flag("in_location_gazetteer")})
       \cup When(hit(gazetteers.organizations), {Flag("in_org_gazetteer")})
       \cup When(hit(gazetteers.misc), {Flag("in_misc_gazetteer")})

\* extract_for_token for the token at position i (1-based; token_index is i - 1)
extract_for_token(tokens, i, gazetteers) ==
    LET word == tokens[i].text
        chars == {word[k] : k \in 1..Len(word)}
        all_upper == \A c \in chars : is_uppercase(c) \/ ~is_alphabetic(c)
        has_upper_in_middle == \E k \in 2..Len(word) : is_uppercase(word[k])
        names ==
            {Feat("word=", to_lowercase(word)), Flag("bias")}
            \cup When(first_char_upper(word), {Flag("is_capitalized")})
            \cup When(all_upper /\ str_len(word) > 1, {Flag("is_all_caps")})
            \cup When(has_upper_in_middle, {Flag("is_mixed_case")})
            \cup AffixFeatures(word)
            \cup When(\A c \in chars : is_numeric(c), {Flag("is_digit")})
            \cup When("-" \in chars, {Flag("has_hyphen")})
            \cup When("." \in chars, {Flag("has_period")})
            \cup When(str_len(word) = 1 /\ ~is_alphanumeric(word[1]),
                      {Flag("is_punctuation")})
            \cup When(i = 1, {Flag("is_first")})
            \cup When(i = Len(tokens), {Flag("is_last")})
            \cup ContextFeatures(tokens, i)
            \cup GazetteerFeatures(word, gazetteers)
    IN FeatureVector(i - 1, [f \in names |-> 1])

extract_features(tokens, gazetteers) ==
    [i \in 1..Len(tokens) |-> extract_for_token(tokens, i, gazetteers)]

\* the tokens both trainers and predictors rebuild from bare words: offsets 0
TokensOf(words) == [i \in 1..Len(words) |-> Token(words[i], 0, 0, i - 1)]

----------------------------------------------------------------------------
(* corpus.rs AnnotatedSentence: annotations is a sequence of <<word, tag>> *)

\* the code point of the characters tag strings are made of
CharCode(c) ==
    CASE c = "-" -> 45 [] c = "B" -> 66 [] c = "C" -> 67 [] c = "E" -> 69
      [] c = "G" -> 71 [] c = "I" -> 73 [] c = "L" -> 76 [] c = "M" -> 77
      [] c = "O" -> 79 [] c = "P" -> 80 [] c = "R" -> 82 [] c = "S" -> 83

RECURSIVE StrLess(_, _)
\* a < b in the order of String: byte-wise, a proper prefix first
StrLess(a, b) ==
    IF b = <<>> THEN FALSE
    ELSE IF a = <<>> THEN TRUE
    ELSE IF a[1] = b[1] THEN StrLess(Tail(a), Tail(b))
    ELSE CharCode(a[1]) < CharCode(b[1])

\* the tags of the annotations of a corpus, as a set
CorpusTags(corpus) ==
    UNION { {s.annotations[i][2] : i \in 1..Len(s.annotations)} :
            s \in {corpus[k] : k \in 1..Len(corpus)} }

RECURSIVE SortedVec(_)
\* a HashSet of strings collected into a Vec and sorted
SortedVec(tag_set) ==
    IF tag_set = {} THEN <<>>
    ELSE LET least == CHOOSE x \in tag_set : \A y \in tag_set \ {x} : StrLess(x, y)
         IN <<least>> \o SortedVec(tag_set \ {least})

----------------------------------------------------------------------------
(* perceptron.rs PerceptronModel. weights, total_weights hold f64 values:   *)
(* each is a multiple of 1/scale and the maps keep the numerators; scale is *)
(* 1 until an average is taken.                                             *)

PerceptronModel_new ==
    [ weights       |-> EmptyMap,
      total_weights |-> EmptyMap,
      last_update   |-> EmptyMap,
      steps         |-> 0,
      tags          |-> <<>>,
      scale         |-> 1 ]

score_tag(model, fv, tag) ==
    LET fs == fv.features
    IN SumOver({f \in DOMAIN fs : <<f, tag>> \in DOMAIN model.weights},
               [f \in DOMAIN fs |-> GetOr(model.weights, <<f, tag>>, 0) * fs[f]])

RECURSIVE predict_single_from(_, _, _, _, _)
\* the loop over self.tags from position k: a strictly better score replaces
predict_single_from(model, fv, k, best_tag, best_score) ==
    IF k > Len(model.tags) THEN best_tag
    ELSE LET score == score_tag(model, fv, model.tags[k])
         IN IF score > best_score
            THEN predict_single_from(model, fv, k + 1, model.tags[k], score)
            ELSE predict_single_from(model, fv, k + 1, best_tag, best_score)

\* the empty String when no tag is known
predict_single(model, fv) ==
    predict_single_from(model, fv, 1,
                        IF model.tags = <<>> THEN <<>> ELSE model.tags[1],
                        NEG_INFINITY)

\* (self.steps - last_step) for a key
steps_since_update(model, key) == model.steps - GetOr(model.last_update, key, 0)

update_feature(model, fname, tag, delta) ==
    LET key == <<fname, tag>>
        current_w == GetOr(model.weights, key, 0)
    IN [model EXCEPT
          !.total_weights =
              Put(@, key, GetOr(@, key, 0) + steps_since_update(model, key) * current_w),
          !.last_update = Put(@, key, model.steps),
          !.weights = Put(@, key, current_w + delta * model.scale)]

RECURSIVE update_over(_, _, _, _)
\* the loop of update over the features still to visit
update_over(model, feats, true_tag, pred_tag) ==
    IF feats = {} THEN model
    ELSE LET fname == CHOOSE f \in feats : TRUE
             promoted == update_feature(model, fname, true_tag, 1)
             demoted == update_feature(promoted, fname, pred_tag, -1)
         IN update_over(demoted, feats \ {fname}, true_tag, pred_tag)

\* mutant: only one of the active features is updated
update_one_feature(model, fv, true_tag, pred_tag) ==
    update_over(model, {CHOOSE f \in DOMAIN fv.features : TRUE}, true_tag, pred_tag)

update(model, fv, true_tag, pred_tag) ==
    update_over(model, DOMAIN fv.features, true_tag, pred_tag)

\* mutant: the final catch-up is skipped
finalize_catch_up_skipped(model) == model.total_weights

\* first loop of finalize_weights: every key of weights is brought up to steps
finalize_catch_up(model) ==
    [ key \in (DOMAIN model.weights) \cup (DOMAIN model.total_weights) |->
        GetOr(model.total_weights, key, 0)
        + (IF key \in DOMAIN model.weights
           THEN steps_since_update(model, key) * model.weights[key]
           ELSE 0) ]

finalize_weights(model) ==
    LET total == finalize_catch_up(model)
    IN [model EXCEPT
          !.weights =
              IF model.steps > 0
              THEN [ key \in (DOMAIN @) \cup (DOMAIN total) |->
                       IF key \in DOMAIN total THEN total[key] ELSE @[key] * model.steps ]
              ELSE @,
          !.scale = IF model.steps > 0 THEN @ * model.steps ELSE @,
          !.total_weights = EmptyMap,
          !.last_update = EmptyMap]

\* mutant: the step is counted only for a token predicted right
train_token_mistake_uncounted(model, fv, true_tag) ==
    LET pred_tag == predict_single(model, fv)
    IN IF pred_tag # true_tag
       THEN update(model, fv, true_tag, pred_tag)
       ELSE [model EXCEPT !.steps = @ + 1]

\* one token of the training loop: predict, update on a mistake, count the step
train_token(model, fv, true_tag) ==
    LET pred_tag == predict_single(model, fv)
        updated == IF pred_tag # true_tag
                   THEN update(model, fv, true_tag, pred_tag)
                   ELSE model
    IN [updated EXCEPT !.steps = @ + 1]

RECURSIVE train_sentence_from(_, _, _, _)
train_sentence_from(model, feature_vectors, sentence, i) ==
    IF i > Len(feature_vectors) THEN model
    ELSE train_sentence_from(
             train_token(model, feature_vectors[i], sentence.annotations[i][2]),
             feature_vectors, sentence, i + 1)

train_sentence(model, sentence) ==
    LET words == [i \in 1..Len(sentence.annotations) |-> sentence.annotations[i][1]]
    IN train_sentence_from(model, extract_features(TokensOf(words), Gazetteers_new),
                           sentence, 1)

RECURSIVE train_corpus_from(_, _, _)
train_corpus_from(model, corpus, s) ==
    IF s > Len(corpus) THEN model
    ELSE train_corpus_from(train_sentence(model, corpus[s]), corpus, s + 1)

RECURSIVE train_iterations(_, _, _)
train_iterations(model, corpus, iterations) ==
    IF iterations = 0 THEN model
    ELSE train_iterations(train_corpus_from(model, corpus, 1), corpus, iterations - 1)

PerceptronModel_train(model, corpus, iterations) ==
    finalize_weights(
        train_iterations([model EXCEPT !.tags = SortedVec(CorpusTags(corpus))],
                         corpus, iterations))

PerceptronModel_predict(model, tokens) ==
    LET feature_vectors == extract_features(TokensOf(tokens), Gazetteers_new)
    IN [i \in 1..Len(tokens) |-> predict_single(model, feature_vectors[i])]

----------------------------------------------------------------------------
(* hmm.rs HmmModel. A log-probability ln(num/den) is the record [num, den]: *)
(* ln is strictly increasing, so a sum of logs is the product of the        *)
(* arguments and sums are compared as products; ln(0) is f64::NEG_INFINITY. *)

LogProb(num, den) == [num |-> num, den |-> den]

\* f64::NEG_INFINITY as a log-probability
LogZero == LogProb(0, 1)

LogAdd(a, b) == LogProb(a.num * b.num, a.den * b.den)

\* a > b
LogGt(a, b) == a.num * b.den > b.num * a.den

\* the sentinel "<UNK>"
UNK == <<"<", "U", "N", "K", ">">>

\* what Vec indexing out of bounds and unwrap of None do, where a Vec<String>
\* is expected
Panic == << <<"panic">> >>

HmmModel_new ==
    [ transition_probs |-> EmptyMap,
      emission_probs   |-> EmptyMap,
      start_probs      |-> EmptyMap,
      all_tags         |-> <<>>,
      vocab            |-> {} ]

\* HashMap::insert of every entry of new into m
PutAll(m, new) ==
    [k \in (DOMAIN m) \cup (DOMAIN new) |-> IF k \in DOMAIN new THEN new[k] ELSE m[k]]

\* the positions <<sentence, token>> (1-based) of the annotations of a corpus
Positions(corpus) ==
    UNION { {<<s, i>> : i \in 1..Len(corpus[s].annotations)} : s \in 1..Len(corpus) }

WordAt(corpus, p) == corpus[p[1]].annotations[p[2]][1]
TagAt(corpus, p) == corpus[p[1]].annotations[p[2]][2]

tag_counts(corpus, t) ==
    Cardinality({p \in Positions(corpus) : TagAt(corpus, p) = t})

emission_counts(corpus, t, w) ==
    Cardinality({p \in Positions(corpus) : TagAt(corpus, p) = t /\ WordAt(corpus, p) = w})

start_counts(corpus, t) ==
    Cardinality({p \in Positions(corpus) : p[2] = 1 /\ TagAt(corpus, p) = t})

transition_counts(corpus, prev, t) ==
    Cardinality({p \in Positions(corpus) :
                    /\ p[2] > 1
                    /\ TagAt(corpus, <<p[1], p[2] - 1>>) = prev
                    /\ TagAt(corpus, p) = t})

\* mutant: no add-1 smoothing
unsmoothed(count, total) == LogProb(count, total)

\* ((count + 1.0) / total).ln()
smoothed(count, total) == LogProb(count + 1, total)

HmmModel_train(model, corpus) ==
    LET tag_set == CorpusTags(corpus)
        vocab == {WordAt(corpus, p) : p \in Positions(corpus)}
        vocab_size == Cardinality(vocab)
        num_tags == Cardinality(tag_set)
        total_starts == Len(corpus)
        start == [t \in tag_set |->
                    smoothed(start_counts(corpus, t), total_starts + num_tags)]
        transition == [k \in tag_set \X tag_set |->
                         smoothed(transition_counts(corpus, k[1], k[2]),
                                  tag_counts(corpus, k[1]) + num_tags)]
        emission == [k \in tag_set \X (vocab \cup {UNK}) |->
                       smoothed(IF k[2] = UNK THEN 0
                                ELSE emission_counts(corpus, k[1], k[2]),
                                tag_counts(corpus, k[1]) + vocab_size + 1)]
    IN [ transition_probs |-> PutAll(model.transition_probs, transition),
         emission_probs   |-> PutAll(model.emission_probs, emission),
         start_probs      |-> PutAll(model.start_probs, start),
         all_tags         |-> SortedVec(tag_set),
         vocab            |-> vocab ]

\* the token looked up for position t: itself when known, "<UNK>" otherwise
hmm_token(model, tokens, t) == IF tokens[t] \in model.vocab THEN tokens[t] ELSE UNK

RECURSIVE hmm_best_prev(_, _, _, _, _)
\* the loop over prev_s from position prev_s (1-based): [prob, backptr] of the
\* first strictly best predecessor
hmm_best_prev(model, row, curr_tag, emit_p, prev_s) ==
    IF prev_s = 0 THEN [prob |-> LogZero, backptr |-> 1]
    ELSE LET before == hmm_best_prev(model, row, curr_tag, emit_p, prev_s - 1)
             trans_p == GetOr(model.transition_probs,
                              <<model.all_tags[prev_s], curr_tag>>, LogZero)
             prob == LogAdd(LogAdd(row[prev_s].prob, trans_p), emit_p)
         IN IF LogGt(prob, before.prob)
            THEN [prob |-> prob, backptr |-> prev_s]
            ELSE before

RECURSIVE hmm_viterbi(_, _, _)
\* the rows viterbi[0..t-1] with backptr, as a sequence of t rows of
\* [prob, backptr] per tag (backptr a 1-based position of all_tags)
hmm_viterbi(model, tokens, t) ==
    LET n_tags == Len(model.all_tags)
        token == hmm_token(model, tokens, t)
        emit(s) == GetOr(model.emission_probs, <<model.all_tags[s], token>>, LogZero)
    IN IF t = 1
       THEN << [s \in 1..n_tags |->
                  [prob |-> LogAdd(GetOr(model.start_probs, model.all_tags[s], LogZero),
                                   emit(s)),
                   backptr |-> 1]] >>
       ELSE LET rows == hmm_viterbi(model, tokens, t - 1)
            IN Append(rows,
                      [s \in 1..n_tags |->
                         hmm_best_prev(model, rows[t - 1], model.all_tags[s],
                                       emit(s), n_tags)])

\* mutant: the first final state, whatever its probability
hmm_best_last_first(row, s) == [prob |-> row[1].prob, idx |-> 1]

RECURSIVE hmm_best_last_ties_last(_, _)
\* mutant: >= in place of >, the last of several best final states
hmm_best_last_ties_last(row, s) ==
    IF s = 0 THEN [prob |-> LogZero, idx |-> 1]
    ELSE LET before == hmm_best_last_ties_last(row, s - 1)
         IN IF ~LogGt(before.prob, row[s].prob)
            THEN [prob |-> row[s].prob, idx |-> s]
            ELSE before

RECURSIVE hmm_best_last(_, _)
\* the termination loop: position of the first strictly best final state
hmm_best_last(row, s) ==
    IF s = 0 THEN [prob |-> LogZero, idx |-> 1]
    ELSE LET before == hmm_best_last(row, s - 1)
         IN IF LogGt(row[s].prob, before.prob)
            THEN [prob |-> row[s].prob, idx |-> s]
            ELSE before

\* mutant: the back-pointers are not followed, the last tag is repeated
hmm_backtrack_stay(model, rows, t, curr_idx, path) ==
    [k \in 1..(t - 1) |-> model.all_tags[curr_idx]] \o path

RECURSIVE hmm_backtrack(_, _, _, _, _)
hmm_backtrack(model, rows, t, curr_idx, path) ==
    IF t = 1 THEN path
    ELSE LET prev_idx == rows[t][curr_idx].backptr
         IN hmm_backtrack(model, rows, t - 1, prev_idx,
                          <<model.all_tags[prev_idx]>> \o path)

\* predict past the early return, for a non-empty tokens
hmm_decode(model, tokens) ==
    IF model.all_tags = <<>> THEN Panic    \* self.all_tags[curr_idx], Vec empty
    ELSE LET n_tokens == Len(tokens)
             rows == hmm_viterbi(model, tokens, n_tokens)
             best_last_tag_idx == hmm_best_last(rows[n_tokens], Len(model.all_tags)).idx
         IN hmm_backtrack(model, rows, n_tokens, best_last_tag_idx,
                          <<model.all_tags[best_last_tag_idx]>>)

\* mutant: no early return on empty input, tokens[0] is then out of bounds
HmmModel_predict_unchecked(model, tokens) ==
    IF tokens = <<>> THEN Panic ELSE hmm_decode(model, tokens)

HmmModel_predict(model, tokens) ==
    IF tokens = <<>> THEN <<>> ELSE hmm_decode(model, tokens)

----------------------------------------------------------------------------
(* maxent.rs MaxEntModel. The weights SGD learns go through exp (softmax)    *)
(* and have no exact counterpart: where an update is applied the model draws *)
(* the learnt weights (see MaxEntLearnt); everything else is computed.       *)

MaxEntModel_new == [weights |-> EmptyMap, tags |-> <<>>]

\* the HashMap tag -> score
compute_scores(model, fv) ==
    [ tag \in {model.tags[k] : k \in 1..Len(model.tags)} |-> score_tag(model, fv, tag) ]

\* predict_best for a model with tags: the loop visits the HashMap scores in an
\* order the hasher picks and keeps the first strictly best score, so every tag
\* of maximal score can be returned
predict_best(model, scores) ==
    {tag \in DOMAIN scores : \A other \in DOMAIN scores : scores[other] <= scores[tag]}

\* the results predict can return
MaxEntModel_predict(model, tokens) ==
    IF tokens = <<>> THEN {<<>>}
    ELSE IF model.tags = <<>> THEN {Panic}    \* self.tags[0], Vec empty
    ELSE LET feature_vectors == extract_features(TokensOf(tokens), Gazetteers_new)
         IN { result \in [1..Len(tokens) -> {model.tags[k] : k \in 1..Len(model.tags)}] :
                \A i \in 1..Len(tokens) :
                   result[i] \in predict_best(model,
                                              compute_scores(model, feature_vectors[i])) }

\* the features train extracts from a corpus
CorpusFeatures(corpus) ==
    UNION { DOMAIN extract_for_token(
                       TokensOf([i \in 1..Len(corpus[p[1]].annotations) |->
                                    corpus[p[1]].annotations[i][1]]),
                       p[2], Gazetteers_new).features
            : p \in Positions(corpus) }

\* a weight SGD can leave on a key, as a sample of the f64 values
MaxEntValues == {-1, 1}

\* the weights after SGD over a corpus with several tags: every key of a
\* feature of the corpus and a known tag holds a learnt value, here one value
\* per tag
MaxEntLearnt(corpus, tag_set) ==
    { [k \in CorpusFeatures(corpus) \X tag_set |-> per_tag[k[2]]] :
        per_tag \in [tag_set -> MaxEntValues] }

\* the models train(corpus, iterations, 0.1, 0.01) can leave. With one known
\* tag softmax gives exactly 1.0 and the error is 0.0: no weight is touched.
MaxEntModel_train(model, corpus, iterations) ==
    LET tag_set == CorpusTags(corpus)
        tags == SortedVec(tag_set)
    IN IF iterations = 0 \/ Cardinality(tag_set) <= 1
       THEN { [weights |-> model.weights, tags |-> tags] }
       ELSE { [weights |-> PutAll(model.weights, learnt), tags |-> tags] :
                learnt \in MaxEntLearnt(corpus, tag_set) }

----------------------------------------------------------------------------
(* span.rs SpanModel and bio_to_spans *)

Span(start, end, lbl) == [start |-> start, end |-> end, label |-> lbl]

\* what unwrap of None does, where a Vec<Span> is expected
SpanPanic == << Span(0, 0, <<"panic">>) >>

LabelO == <<"O">>

SpanModel_new == [weights |-> EmptyMap, tags |-> <<>>, max_span_len |-> 6]

starts_with(s, prefix) ==
    Len(s) >= Len(prefix) /\ SubSeq(s, 1, Len(prefix)) = prefix

RECURSIVE trim_start_matches(_, _)
\* str::trim_start_matches: the prefix removed as often as it repeats
trim_start_matches(s, prefix) ==
    IF starts_with(s, prefix)
    THEN trim_start_matches(SubSeq(s, Len(prefix) + 1, Len(s)), prefix)
    ELSE s

RECURSIVE bio_to_spans_from(_, _, _, _)
\* the loop of bio_to_spans from tag i (1-based); current = [some, start, label]
\* is the open entity (current_start, current_label), spans those closed so far
bio_to_spans_from(tags, i, current, spans) ==
    LET closed == IF current.some
                  THEN Append(spans, Span(current.start, i - 1, current.label))
                  ELSE spans
        opened == [some |-> TRUE, start |-> i - 1, label |-> SubSeq(tags[i], 3, Len(tags[i]))]
        none == [some |-> FALSE, start |-> 0, label |-> <<>>]
    IN IF i > Len(tags) THEN closed
       ELSE IF starts_with(tags[i], <<"B", "-">>)
       THEN bio_to_spans_from(tags, i + 1, opened, closed)
       ELSE IF starts_with(tags[i], <<"I", "-">>)
       THEN IF current.some /\ SubSeq(tags[i], 3, Len(tags[i])) = current.label
            THEN bio_to_spans_from(tags, i + 1, current, spans)
            ELSE bio_to_spans_from(tags, i + 1, opened, closed)
       ELSE bio_to_spans_from(tags, i + 1, none, closed)

\* mutant: the entity still open after the last tag is not closed
bio_to_spans_unclosed(tags) ==
    LET spans == bio_to_spans_from(tags, 1, [some |-> FALSE, start |-> 0, label |-> <<>>],
                                   <<>>)
    IN IF spans # <<>> /\ spans[Len(spans)].end = Len(tags)
       THEN SubSeq(spans, 1, Len(spans) - 1)
       ELSE spans

bio_to_spans(tags) ==
    bio_to_spans_from(tags, 1, [some |-> FALSE, start |-> 0, label |-> <<>>], <<>>)

RECURSIVE generate_candidates_from(_, _, _, _)
\* the nested loops from (len, start): the (start, end) pairs, shortest first
generate_candidates_from(model, n_tokens, len, start) ==
    IF len > model.max_span_len THEN <<>>
    ELSE IF start >= n_tokens
    THEN generate_candidates_from(model, n_tokens, len + 1, 0)
    ELSE (IF start + len <= n_tokens THEN << <<start, start + len>> >> ELSE <<>>)
         \o generate_candidates_from(model, n_tokens, len, start + 1)

generate_candidates(model, n_tokens) == generate_candidates_from(model, n_tokens, 1, 0)

\* format!("span_len={}", n) for the lengths a candidate can have
SpanLenText(n) ==
    CASE n = 1 -> <<"1">> [] n = 2 -> <<"2">> [] n = 3 -> <<"3">>
      [] n = 4 -> <<"4">> [] n = 5 -> <<"5">> [] n = 6 -> <<"6">>

RECURSIVE JoinSpace(_)
\* join(" ")
JoinSpace(words) ==
    IF words = <<>> THEN <<>>
    ELSE IF Len(words) = 1 THEN words[1]
    ELSE words[1] \o <<" ">> \o JoinSpace(Tail(words))

\* the features of the candidate tokens[start..end] (0-based, end exclusive),
\* every token of which is non-empty
extract_span_features(tokens, start, end, gaz) ==
    LET lower(k) == to_lowercase(tokens[k + 1].text)
        span_text == to_lowercase(JoinSpace([k \in 1..(end - start) |->
                                                tokens[start + k].text]))
        names ==
            {Feat("span_first=", lower(start)), Feat("span_last=", lower(end - 1))}
            \cup When(start > 0, {Feat("ctx_prev=", lower(start - 1))})
            \cup When(end < Len(tokens), {Feat("ctx_next=", lower(end))})
            \cup {Feat("span_len=", SpanLenText(end - start))}
            \cup {Feat("in_span=", lower(i)) : i \in start..(end - 1)}
            \cup When(\E i \in start..(end - 1) : is_uppercase(tokens[i + 1].text[1]),
                      {Flag("span_has_cap")})
            \cup When(span_text \in gaz.persons, {Flag("span_is_person_gaz")})
            \cup When(span_text \in gaz.locations, {Flag("span_is_loc_gaz")})
            \cup When(span_text \in gaz.organizations, {Flag("span_is_org_gaz")})
    IN FeatureVector(start, [f \in names |-> 1])

RECURSIVE span_predict_single_from(_, _, _, _, _)
span_predict_single_from(model, fv, k, best_label, best_score) ==
    IF k > Len(model.tags) THEN best_label
    ELSE LET score == score_tag(model, fv, model.tags[k])
         IN IF score > best_score
            THEN span_predict_single_from(model, fv, k + 1, model.tags[k], score)
            ELSE span_predict_single_from(model, fv, k + 1, best_label, best_score)

\* SpanModel::predict_single: "O" unless a tag scores above negative infinity
span_predict_single(model, fv) ==
    span_predict_single_from(model, fv, 1, LabelO, NEG_INFINITY)

RECURSIVE span_update_over(_, _, _, _)
\* SpanModel::update: +1.0 for the true label, -1.0 for the predicted one
span_update_over(weights, feats, true_label, pred_label) ==
    IF feats = {} THEN weights
    ELSE LET fname == CHOOSE f \in feats : TRUE
             promoted == Put(weights, <<fname, true_label>>,
                             GetOr(weights, <<fname, true_label>>, 0) + 1)
             demoted == Put(promoted, <<fname, pred_label>>,
                            GetOr(promoted, <<fname, pred_label>>, 0) - 1)
         IN span_update_over(demoted, feats \ {fname}, true_label, pred_label)

RECURSIVE span_train_candidates(_, _, _, _, _)
\* the loop over the candidates of one sentence, from candidate c
span_train_candidates(model, tokens, gold_spans, candidates, c) ==
    IF c > Len(candidates) THEN model
    ELSE LET start == candidates[c][1]
             end == candidates[c][2]
             fv == extract_span_features(tokens, start, end, Gazetteers_new)
             gold == {g \in 1..Len(gold_spans) :
                         gold_spans[g].start = start /\ gold_spans[g].end = end}
             true_label == IF gold = {} THEN LabelO
                           ELSE gold_spans[CHOOSE g \in gold : TRUE].label
             pred_label == span_predict_single(model, fv)
             updated == IF pred_label # true_label
                        THEN [model EXCEPT !.weights =
                                 span_update_over(@, DOMAIN fv.features,
                                                  true_label, pred_label)]
                        ELSE model
         IN span_train_candidates(updated, tokens, gold_spans, candidates, c + 1)

RECURSIVE span_train_from(_, _, _, _)
\* the loops over iterations and sentences, from sentence s of the current pass
span_train_from(model, corpus, s, iterations) ==
    IF iterations = 0 THEN model
    ELSE IF s > Len(corpus) THEN span_train_from(model, corpus, 1, iterations - 1)
    ELSE LET ann == corpus[s].annotations
             tokens == TokensOf([i \in 1..Len(ann) |-> ann[i][1]])
             gold_spans == bio_to_spans([i \in 1..Len(ann) |-> ann[i][2]])
         IN span_train_from(
                span_train_candidates(model, tokens, gold_spans,
                                      generate_candidates(model, Len(tokens)), 1),
                corpus, s + 1, iterations)

SpanModel_train(model, corpus, iterations) ==
    LET clean == { trim_start_matches(trim_start_matches(t, <<"B", "-">>), <<"I", "-">>) :
                   t \in CorpusTags(corpus) \ {LabelO} }
    IN span_train_from([model EXCEPT !.tags = SortedVec({LabelO} \cup clean)],
                       corpus, 1, iterations)

SpanModel_predict(model, tokens) ==
    IF \E i \in 1..Len(tokens) : tokens[i] = <<>>
    THEN SpanPanic    \* chars().next().unwrap() on an empty token
    ELSE LET input_tokens == TokensOf(tokens)
             candidates == generate_candidates(model, Len(tokens))
             labelled == [c \in 1..Len(candidates) |->
                            Span(candidates[c][1], candidates[c][2],
                                 span_predict_single(
                                     model,
                                     extract_span_features(input_tokens, candidates[c][1],
                                                           candidates[c][2], Gazetteers_new)))]
         IN SelectSeq(labelled, LAMBDA s : s.label # LabelO)

----------------------------------------------------------------------------
(* tokenizer.rs: tokenize_with_mode *)

\* the entries of ABBREVIATIONS that the characters above spell
ABBREVIATIONS == { <<"D", "r">>, <<"S", "r">>, <<"o", "p">> }

\* flush_token: the accumulated text becomes a token, if there is any
flush_token(st, end) ==
    IF st.current_text # <<>>
    THEN [st EXCEPT !.tokens = Append(@, Token(st.current_text, st.current_start, end, 0)),
                    !.current_text = <<>>]
    ELSE st

push_token(st, text, start, end) ==
    [st EXCEPT !.tokens = Append(@, Token(text, start, end, 0))]

\* current_text.push(ch), starting a token at byte_pos when none is open
push_char(st, ch, byte_pos) ==
    [st EXCEPT !.current_start = IF st.current_text = <<>> THEN byte_pos ELSE @,
               !.current_text = Append(@, ch)]

\* one pass of the while loop of tokenize_standard: chars[i] at byte_pos
tokenize_standard_step(chars, i, byte_pos, st) ==
    LET ch == chars[i]
        has_next == i + 1 <= Len(chars)
        is_abbrev == st.current_text \in ABBREVIATIONS
        current_is_num == \A k \in 1..Len(st.current_text) : is_numeric(st.current_text[k])
        next_is_num == has_next /\ is_numeric(chars[i + 1])
        next_is_upper == has_next /\ is_uppercase(chars[i + 1])
    IN IF is_alphanumeric(ch) \/ (ch = "-" /\ st.current_text # <<>>)
       THEN push_char(st, ch, byte_pos)
       ELSE IF ch = "." /\ st.current_text # <<>>
       THEN IF is_abbrev \/ (current_is_num /\ next_is_num)
            THEN [st EXCEPT !.current_text = Append(@, ".")]
            ELSE IF is_abbrev /\ next_is_upper
            THEN [st EXCEPT !.current_text = Append(@, ".")]
            ELSE push_token(flush_token(st, byte_pos), <<".">>, byte_pos, byte_pos + 1)
       ELSE IF ch = "'"
       THEN push_char(st, ch, byte_pos)
       ELSE IF IsWhitespace(ch)
       THEN flush_token(st, byte_pos)
       ELSE push_token(flush_token(st, byte_pos), <<ch>>, byte_pos, byte_pos + len_utf8(ch))

RECURSIVE tokenize_standard_from(_, _, _, _)
\* the while loop from chars[i], then the final flush at text.len()
tokenize_standard_from(chars, i, byte_pos, st) ==
    IF i > Len(chars) THEN flush_token(st, byte_pos).tokens
    ELSE tokenize_standard_from(chars, i + 1, byte_pos + len_utf8(chars[i]),
                                tokenize_standard_step(chars, i, byte_pos, st))

tokenize_standard(text) ==
    tokenize_standard_from(text, 1, 0,
                           [tokens |-> <<>>, current_start |-> 0, current_text |-> <<>>])

\* one token per char, at its byte offset
tokenize_char_level(text) ==
    [ i \in 1..Len(text) |->
        Token(<<text[i]>>, str_len(SubSeq(text, 1, i - 1)), str_len(SubSeq(text, 1, i)), 0) ]

\* the entries of CLITICS, SUFFIXES (in their order) and COMPOUNDS that the
\* characters above spell
CLITICS ==
    { <<"-", "s", "e">>, <<"-", "n", "o", "s">>, <<"-", "t", "e">>, <<"-", "o">>,
      <<"-", "a">>, <<"-", "l", "o", "s">>, <<"-", "l", "a", "s">> }

SUFFIXES == << <<"i", "s", "t", "a">>, <<"d", "a", "d", "e">> >>

COMPOUNDS ==
    { <<"e", "s", "t", "a", "d", "o", "s", " ", "u", "n", "i", "d", "o", "s">> }

ends_with(s, suffix) ==
    Len(s) >= Len(suffix) /\ SubSeq(s, Len(s) - Len(suffix) + 1, Len(s)) = suffix

\* str::rsplit_once('-'): the text before and after the last '-'
rsplit_once_hyphen(s) ==
    LET at == {k \in 1..Len(s) : s[k] = "-"}
    IN IF at = {} THEN [some |-> FALSE, base |-> <<>>, clitic |-> <<>>]
       ELSE LET last == CHOOSE k \in at : \A j \in at : j <= k
            IN [some |-> TRUE, base |-> SubSeq(s, 1, last - 1),
                clitic |-> SubSeq(s, last + 1, Len(s))]

\* what tokenize_aggressive pushes for one standard token
expand_token(token) ==
    LET split == rsplit_once_hyphen(token.text)
        base_len == str_len(split.base)
        suffixes == {k \in 1..Len(SUFFIXES) : ends_with(token.text, SUFFIXES[k])}
        suffix == SUFFIXES[CHOOSE k \in suffixes : \A j \in suffixes : k <= j]
        stem == SubSeq(token.text, 1, Len(token.text) - Len(suffix))
    IN IF split.some /\ (<<"-">> \o split.clitic) \in CLITICS /\ split.base # <<>>
       THEN << Token(split.base, token.start, token.start + base_len, 0),
               Token(<<"-">>, token.start + base_len, token.start + base_len + 1, 0),
               Token(split.clitic, token.start + base_len + 1, token.end, 0) >>
       ELSE IF /\ str_len(token.text) > 6
               /\ \A k \in 1..Len(token.text) : is_alphabetic(token.text[k])
               /\ suffixes # {}
       THEN << Token(stem, token.start, token.start + str_len(stem), 0),
               Token(suffix, token.start + str_len(stem), token.end, 0) >>
       ELSE <<token>>

RECURSIVE expand_tokens_from(_, _)
expand_tokens_from(standard_tokens, i) ==
    IF i > Len(standard_tokens) THEN <<>>
    ELSE expand_token(standard_tokens[i]) \o expand_tokens_from(standard_tokens, i + 1)

tokenize_aggressive(text) == expand_tokens_from(tokenize_standard(text), 1)

\* the tokens of standard[i..i+window) follow each other with at most
\* whitespace between them and spell a compound
is_compound(text, standard, i, window) ==
    /\ i + window - 1 <= Len(standard)
    /\ \A k \in i..(i + window - 2) :
          \/ standard[k + 1].start = standard[k].end
          \/ /\ standard[k + 1].start > standard[k].end
             /\ trim(Slice(text, standard[k].end, standard[k + 1].start)) = <<>>
    /\ to_lowercase(JoinSpace([k \in 1..window |-> standard[i + k - 1].text])) \in COMPOUNDS

RECURSIVE tokenize_conservative_from(_, _, _)
\* the while loop from standard[i]: the longest compound of 2 to 5 tokens
\* starting there is merged
tokenize_conservative_from(text, standard, i) ==
    IF i > Len(standard) THEN <<>>
    ELSE LET windows == {w \in 2..5 : is_compound(text, standard, i, w)}
             best_match_len == IF windows = {} THEN 0
                               ELSE CHOOSE w \in windows : \A v \in windows : v <= w
         IN IF best_match_len > 0
            THEN << Token(Slice(text, standard[i].start,
                                standard[i + best_match_len - 1].end),
                          standard[i].start, standard[i + best_match_len - 1].end, 0) >>
                 \o tokenize_conservative_from(text, standard, i + best_match_len)
            ELSE <<standard[i]>> \o tokenize_conservative_from(text, standard, i + 1)

tokenize_conservative(text) ==
    tokenize_conservative_from(text, tokenize_standard(text), 1)

\* the pairs of merges that the characters above spell
BpeMerges ==
    { <<"e", "s">>, <<"a", "s">>, <<"o", "s">>, <<"d", "e">>, <<"d", "o">>, <<"d", "a">>,
      <<"u", "e">>, <<"r", "e">>, <<"i", "n">>, <<"t", "e">> }

RECURSIVE bpe_pass(_, _)
\* one pass of merges from tokens[i]: an adjacent pair of merges becomes one
\* token
bpe_pass(tokens, i) ==
    IF i > Len(tokens) THEN <<>>
    ELSE IF /\ i + 1 <= Len(tokens)
            /\ tokens[i].end = tokens[i + 1].start
            /\ <<tokens[i].text, tokens[i + 1].text>>
                  \in { <<<<m[1]>>, <<m[2]>>>> : m \in BpeMerges }
    THEN << Token(tokens[i].text \o tokens[i + 1].text, tokens[i].start,
                  tokens[i + 1].end, 0) >> \o bpe_pass(tokens, i + 2)
    ELSE <<tokens[i]>> \o bpe_pass(tokens, i + 1)

\* three passes over the chars
tokenize_bpe_lite(text) ==
    bpe_pass(bpe_pass(bpe_pass(tokenize_char_level(text), 1), 1), 1)

TokenizerMode == {"Standard", "CharLevel", "Aggressive", "Conservative", "BpeLite"}

\* tokenize_with_mode: the tokens of the mode, re-indexed
tokenize_with_mode(text, mode) ==
    LET tokens == CASE mode = "CharLevel"    -> tokenize_char_level(text)
                    [] mode = "Aggressive"   -> tokenize_aggressive(text)
                    [] mode = "Conservative" -> tokenize_conservative(text)
                    [] mode = "BpeLite"      -> tokenize_bpe_lite(text)
                    [] mode = "Standard"     -> tokenize_standard(text)
    IN [i \in 1..Len(tokens) |-> [tokens[i] EXCEPT !.index = i - 1]]

----------------------------------------------------------------------------
(* rule_based.rs: RuleEngine. Confidences are in hundredths. *)

RuleMatch(token_index, tag, rule_name, confidence) ==
    [some |-> TRUE, token_index |-> token_index, tag |-> tag,
     rule_name |-> rule_name, confidence |-> confidence]

NoMatch ==
    [some |-> FALSE, token_index |-> 0, tag |-> Outside, rule_name |-> "", confidence |-> 0]

\* RuleEngine::new(), with the entries of person_titles and org_indicators
\* that the characters above spell
RuleEngine_new ==
    [ person_names   |-> <<>>,
      location_names |-> <<>>,
      org_names      |-> <<>>,
      misc_names     |-> <<>>,
      person_titles  |-> << <<"d", "r">> >>,
      org_indicators |-> << <<"s", ".", "a", ".">>, <<"s", "a">> >> ]

add_person(engine, name) ==
    [engine EXCEPT !.person_names = Append(@, to_lowercase(name))]

contains(vec, x) == \E k \in 1..Len(vec) : vec[k] = x

lower_text(tokens, i) == to_lowercase(tokens[i].text)

RECURSIVE person_gazetteer(_, _, _, _)
\* pass 1, from token i (1-based)
person_gazetteer(engine, tokens, i, result) ==
    IF i > Len(tokens) THEN result
    ELSE IF contains(engine.person_names, lower_text(tokens, i))
    THEN LET after_per == i > 1 /\ result[i - 1].some
                          /\ result[i - 1].tag \in {Begin("Per"), Inside("Per")}
             tag == IF after_per THEN Inside("Per") ELSE Begin("Per")
         IN person_gazetteer(engine, tokens, i + 1,
                [result EXCEPT ![i] = RuleMatch(i - 1, tag, "person_gazetteer", 92)])
    ELSE person_gazetteer(engine, tokens, i + 1, result)

\* pass 2
location_gazetteer(engine, tokens, result) ==
    [i \in 1..Len(tokens) |->
        IF ~result[i].some /\ contains(engine.location_names, lower_text(tokens, i))
        THEN RuleMatch(i - 1, Begin("Loc"), "location_gazetteer", 90)
        ELSE result[i]]

\* entry k of names, if any, that the tokens from i spell: the first such k, or 0
first_ngram(names, tokens, i) ==
    LET hits == {k \in 1..Len(names) :
                    /\ i - 1 + Len(names[k]) <= Len(tokens)
                    /\ \A j \in 1..Len(names[k]) :
                          lower_text(tokens, i + j - 1) = names[k][j]}
    IN IF hits = {} THEN 0 ELSE CHOOSE k \in hits : \A other \in hits : k <= other

RECURSIVE ngram_gazetteer(_, _, _, _, _, _, _)
\* passes 3 and 4, from token i: an entry found at a free token tags it Begin
\* and the tokens of its other parts Inside, whatever they held
ngram_gazetteer(names, cat, rule_name, confidence, tokens, i, result) ==
    IF i > Len(tokens) THEN result
    ELSE LET k == first_ngram(names, tokens, i)
         IN IF result[i].some \/ k = 0
            THEN ngram_gazetteer(names, cat, rule_name, confidence, tokens, i + 1, result)
            ELSE ngram_gazetteer(names, cat, rule_name, confidence, tokens, i + 1,
                    [p \in 1..Len(tokens) |->
                        IF p = i THEN RuleMatch(i - 1, Begin(cat), rule_name, confidence)
                        ELSE IF i < p /\ p < i + Len(names[k])
                        THEN RuleMatch(p - 1, Inside(cat), rule_name, confidence)
                        ELSE result[p]])

RECURSIVE title_pattern(_, _, _, _)
\* pass 5, from token i: tokens[i] a title, tokens[i + 1] free and capitalised
title_pattern(engine, tokens, i, result) ==
    IF i >= Len(tokens) THEN result
    ELSE IF /\ ~result[i + 1].some
            /\ contains(engine.person_titles, lower_text(tokens, i))
            /\ first_char_upper(tokens[i + 1].text)
    THEN title_pattern(engine, tokens, i + 1,
            [result EXCEPT ![i + 1] = RuleMatch(i, Begin("Per"), "title_pattern", 80)])
    ELSE title_pattern(engine, tokens, i + 1, result)

RECURSIVE org_suffix_pattern(_, _, _, _)
\* pass 6, from token i >= 2: tokens[i] an indicator, tokens[i - 1] free and
\* capitalised
org_suffix_pattern(engine, tokens, i, result) ==
    IF i > Len(tokens) THEN result
    ELSE IF /\ contains(engine.org_indicators, lower_text(tokens, i))
            /\ ~result[i - 1].some
            /\ first_char_upper(tokens[i - 1].text)
    THEN org_suffix_pattern(engine, tokens, i + 1,
            [result EXCEPT ![i - 1] = RuleMatch(i - 2, Begin("Org"), "org_suffix_pattern", 85),
                           ![i] = RuleMatch(i - 1, Inside("Org"), "org_suffix_pattern", 85)])
    ELSE org_suffix_pattern(engine, tokens, i + 1, result)

is_cnpj(s) ==
    /\ Cardinality({k \in 1..Len(s) : is_numeric(s[k])}) = 14
    /\ \E k \in 1..Len(s) : s[k] = "."
    /\ \E k \in 1..Len(s) : s[k] = "/"
    /\ \E k \in 1..Len(s) : s[k] = "-"

\* pass 7
cnpj_pattern(tokens, result) ==
    [i \in 1..Len(tokens) |->
        IF is_cnpj(tokens[i].text) /\ ~result[i].some
        THEN RuleMatch(i - 1, Begin("Org"), "cnpj_pattern", 99)
        ELSE result[i]]

\* RuleEngine::apply: one Option<RuleMatch> per token
RuleEngine_apply(engine, tokens) ==
    LET none == [i \in 1..Len(tokens) |-> NoMatch]
        r1 == person_gazetteer(engine, tokens, 1, none)
        r2 == location_gazetteer(engine, tokens, r1)
        r3 == ngram_gazetteer(engine.org_names, "Org", "org_gazetteer", 93, tokens, 1, r2)
        r4 == ngram_gazetteer(engine.misc_names, "Misc", "misc_gazetteer", 88, tokens, 1, r3)
        r5 == title_pattern(engine, tokens, 1, r4)
        r6 == org_suffix_pattern(engine, tokens, 2, r5)
    IN cnpj_pattern(tokens, r6)

----------------------------------------------------------------------------
(* model.rs NerModel and pipeline.rs NerPipeline *)

WordPele == <<"P", "e", "l", "é">>

\* the NerModel of a pipeline: the five models, and of the names
\* build_gazetteers adds the one the characters above spell ("Pelé", of
\* extra_persons)
NerModel(crf_model, hmm_model, maxent_model, perceptron_model, span_model) ==
    [ crf              |-> crf_model,
      hmm              |-> hmm_model,
      maxent           |-> maxent_model,
      perceptron       |-> perceptron_model,
      span             |-> span_model,
      rule_engine      |-> add_person(RuleEngine_new, WordPele),
      gazetteers_cache |-> [Gazetteers_new EXCEPT !.persons = {to_lowercase(WordPele)}] ]

\* build_crf_model: of its weights, the whole-numbered ones on features the
\* words of the model can carry
build_crf_model ==
    set_emission(
        set_emission(
            set_emission(
                set_emission(
                    set_emission(CrfModel_new, Flag("in_person_gazetteer"), Begin("Per"), 5),
                    Flag("is_all_caps"), Begin("Misc"), 1),
                Flag("bias"), Outside, 1),
            Flag("is_punctuation"), Outside, 5),
        Flag("is_digit"), Outside, 2)

\* the iterations NerModel::build trains maxent, perceptron and span with
BuildIterations == [maxent |-> 10, perceptron |-> 5, span |-> 5]

\* NerModel::build on a corpus: the models it can build (maxent's weights are
\* drawn, see MaxEntLearnt)
NerModel_build(corpus) ==
    { NerModel(build_crf_model,
               HmmModel_train(HmmModel_new, corpus),
               trained_maxent,
               PerceptronModel_train(PerceptronModel_new, corpus, BuildIterations.perceptron),
               SpanModel_train(SpanModel_new, corpus, BuildIterations.span)) :
        trained_maxent \in MaxEntModel_train(MaxEntModel_new, corpus, BuildIterations.maxent) }

\* the PipelineEvent values; processing_ms, a wall-clock reading, is left out
TokenizationDone(tokens) ==
    [kind |-> "TokenizationDone", tokens |-> tokens, total |-> Len(tokens)]

\* top_features holds ten of the features, or all when there are fewer; which
\* ten and in what order is the hasher's choice, so only their number is kept
FeaturesComputed(token, fv) ==
    [ kind |-> "FeaturesComputed", token_index |-> token.index, token_text |-> token.text,
      top_features |-> IF Cardinality(DOMAIN fv.features) > 10 THEN 10
                       ELSE Cardinality(DOMAIN fv.features) ]

RuleApplied(token, rm) ==
    [ kind |-> "RuleApplied", token_index |-> token.index, token_text |-> token.text,
      tag |-> label(rm.tag), rule_name |-> rm.rule_name, confidence |-> rm.confidence ]

ViterbiStepEvent(step, token) ==
    [kind |-> "ViterbiStep", step |-> step, token_text |-> token.text]

TagAssigned(token, tag, confidence, source) ==
    [ kind |-> "TagAssigned", token_index |-> token.index, token_text |-> token.text,
      tag |-> label(tag), confidence |-> confidence, source |-> source ]

\* mutant: the run ends with an Error event
Done_as_error(entities, tagged_tokens, total_tokens) ==
    [ kind |-> "Error", entities |-> entities, tagged_tokens |-> tagged_tokens,
      total_tokens |-> total_tokens ]

Done(entities, tagged_tokens, total_tokens) ==
    [ kind |-> "Done", entities |-> entities, tagged_tokens |-> tagged_tokens,
      total_tokens |-> total_tokens ]

\* the events of the non-empty positions of a sequence of optional events
Sent(events) == SelectSeq(events, LAMBDA e : e.kind # "")

NoEvent == [kind |-> ""]

\* the values a softmax confidence takes, in hundredths, as a sample of [0, 1]
CrfConfidences == {50, 100}

\* mutant: the decoded tag is kept where a rule matched
rule_wins_never(mode, rule_match) == FALSE

\* in the fusion step the rule's tag replaces the decoded one: Hybrid mode and
\* a rule matched the token
rule_wins(mode, rule_match) == mode = "Hybrid" /\ rule_match.some

\* analyze_streaming_standard: the event sequences it can send. mode is one of
\* "Hybrid", "RulesOnly", "CrfOnly", "FeaturesOnly". The confidence of a
\* decoded tag is a softmax (scores_to_probs), whose exp is not computed
\* here: crf_confidence[i] ranges over the samples.
analyze_streaming_standard(model, text, tokens, mode) ==
    LET n == Len(tokens)
        feature_vectors == extract_features(tokens, model.gazetteers_cache)
        features_events == [i \in 1..n |-> FeaturesComputed(tokens[i], feature_vectors[i])]
        rule_tags == IF mode \notin {"CrfOnly", "FeaturesOnly"}
                     THEN RuleEngine_apply(model.rule_engine, tokens)
                     ELSE [i \in 1..n |-> NoMatch]
        rule_events == Sent([i \in 1..n |->
                          IF rule_tags[i].some THEN RuleApplied(tokens[i], rule_tags[i])
                          ELSE NoEvent])
        rules_tagged == [i \in 1..n |->
                           IF rule_tags[i].some
                           THEN TaggedToken(tokens[i], rule_tags[i].tag, rule_tags[i].confidence)
                           ELSE TaggedToken(tokens[i], Outside, 100)]
        rules_assigned == [i \in 1..n |->
                             TagAssigned(tokens[i], rules_tagged[i].tag,
                                         rules_tagged[i].confidence,
                                         IF rule_tags[i].some THEN rule_tags[i].rule_name
                                         ELSE IF mode = "FeaturesOnly" THEN "features_only"
                                         ELSE "no_rule")]
        viterbi_result == viterbi_decode(model.crf, feature_vectors)
        viterbi_events == [i \in 1..Len(viterbi_result.steps) |->
                             ViterbiStepEvent(viterbi_result.steps[i], tokens[i])]
        by_rule == [i \in 1..n |-> rule_wins(mode, rule_tags[i])]
        sources == [i \in 1..n |-> IF by_rule[i] THEN rule_tags[i].rule_name ELSE "crf"]
        tagged_tokens(crf_confidence) ==
            [i \in 1..n |->
                IF by_rule[i]
                THEN TaggedToken(tokens[i], rule_tags[i].tag, rule_tags[i].confidence)
                ELSE TaggedToken(tokens[i], viterbi_result.best_sequence[i],
                                 crf_confidence[i])]
        assigned(tagged) ==
            [i \in 1..n |->
                TagAssigned(tokens[i], tagged[i].tag, tagged[i].confidence, sources[i])]
        entities(tagged) ==
            LET spans == tokens_to_spans(tagged, text)
            IN [s \in 1..Len(spans) |->
                   IF by_rule[spans[s].start_token + 1]
                   THEN [spans[s] EXCEPT !.source = sources[spans[s].start_token + 1]]
                   ELSE spans[s]]
        decoded(tagged) ==
            features_events \o rule_events \o viterbi_events \o assigned(tagged)
            \o <<Done(entities(tagged), tagged, n)>>
    IN IF mode \in {"RulesOnly", "FeaturesOnly"}
       THEN { features_events \o rule_events \o rules_assigned
              \o <<Done(tokens_to_spans(rules_tagged, text), rules_tagged, n)>> }
       ELSE { decoded(tagged_tokens(crf_confidence)) :
                crf_confidence \in [1..n -> CrfConfidences] }

\* what a panic of the pipeline leaves of a run: the events sent before it,
\* then the unwinding, which is no event
Unwound == [kind |-> "panic"]

\* analyze_streaming_ml: the event sequences it can send. mode is one of
\* "Hmm", "MaxEnt", "Perceptron"
analyze_streaming_ml(model, text, tokens, mode) ==
    LET n == Len(tokens)
        feature_vectors == extract_features(tokens, model.gazetteers_cache)
        features_events ==
            IF mode \in {"MaxEnt", "Perceptron"}
            THEN [i \in 1..n |-> FeaturesComputed(tokens[i], feature_vectors[i])]
            ELSE <<>>
        token_strs == [i \in 1..n |-> tokens[i].text]
        predictions == CASE mode = "Hmm" -> {HmmModel_predict(model.hmm, token_strs)}
                         [] mode = "MaxEnt" -> MaxEntModel_predict(model.maxent, token_strs)
                         [] mode = "Perceptron" ->
                                {PerceptronModel_predict(model.perceptron, token_strs)}
        source == CASE mode = "Hmm" -> "hmm"
                    [] mode = "MaxEnt" -> "maxent"
                    [] mode = "Perceptron" -> "perceptron"
        zipped(pred_tags) == IF Len(pred_tags) < n THEN Len(pred_tags) ELSE n
        tagged_tokens(pred_tags) ==
            [i \in 1..zipped(pred_tags) |->
                LET tag == from_label(pred_tags[i])
                IN TaggedToken(tokens[i], IF tag.some THEN tag.val ELSE Outside, 100)]
        assigned(tagged) ==
            [i \in 1..Len(tagged) |-> TagAssigned(tokens[i], tagged[i].tag, 100, source)]
        sent(tagged) ==
            features_events \o assigned(tagged)
            \o <<Done(tokens_to_spans(tagged, text), tagged, n)>>
    IN { IF pred_tags = Panic THEN features_events \o <<Unwound>>
         ELSE sent(tagged_tokens(pred_tags)) : pred_tags \in predictions }

RECURSIVE span_mark_from(_, _, _, _)
\* the loop over the spans from spans[k]: a span none of whose tokens is
\* occupied and whose label names a category marks its tokens Begin / Inside
span_mark_from(spans, k, tagged_tokens, occupied) ==
    IF k > Len(spans) THEN tagged_tokens
    ELSE LET found == spans[k]
             n == Len(tagged_tokens)
             range == {i \in found.start..(found.end - 1) : i < n}
             cat == EntityCategory_from_str(found.label)
         IN IF (\E i \in range : occupied[i + 1]) \/ ~cat.some \/ found.start >= n
            THEN span_mark_from(spans, k + 1, tagged_tokens, occupied)
            ELSE span_mark_from(
                     spans, k + 1,
                     [i \in 1..n |->
                         IF i - 1 = found.start
                         THEN [tagged_tokens[i] EXCEPT !.tag = Begin(cat.val)]
                         ELSE IF i - 1 \in range
                         THEN [tagged_tokens[i] EXCEPT !.tag = Inside(cat.val)]
                         ELSE tagged_tokens[i]],
                     [i \in 1..n |-> occupied[i] \/ (i - 1) \in range])

\* the EntitySpan analyze_streaming_span pushes for a span
SpanEntity(text, tokens, found) ==
    LET cat == EntityCategory_from_str(found.label)
    IN [ text        |-> Slice(text, tokens[found.start + 1].start, tokens[found.end].end),
         category    |-> IF cat.some THEN cat.val ELSE "Misc",
         start_token |-> found.start,
         end_token   |-> found.end - 1,
         start       |-> tokens[found.start + 1].start,
         end         |-> tokens[found.end].end,
         confidence  |-> [num |-> 100, den |-> 1],
         source      |-> "span_model" ]

\* analyze_streaming_span: the event sequence it sends
analyze_streaming_span(model, text, tokens) ==
    LET n == Len(tokens)
        spans == SpanModel_predict(model.span, [i \in 1..n |-> tokens[i].text])
        tagged_tokens ==
            span_mark_from(spans, 1, [i \in 1..n |-> TaggedToken(tokens[i], Outside, 100)],
                           [i \in 1..n |-> FALSE])
        assigned == [i \in 1..n |-> TagAssigned(tokens[i], tagged_tokens[i].tag, 100,
                                                "span_based")]
        within == SelectSeq(spans, LAMBDA sp : sp.start < n /\ sp.end <= n)
        entities_vec == [k \in 1..Len(within) |-> SpanEntity(text, tokens, within[k])]
    IN IF spans = SpanPanic THEN { <<Unwound>> }
       ELSE { assigned \o <<Done(entities_vec, tagged_tokens, n)>> }

AlgorithmMode ==
    {"Hybrid", "RulesOnly", "CrfOnly", "FeaturesOnly", "Hmm", "MaxEnt", "Perceptron",
     "SpanBased"}

\* analyze_streaming: the event sequences it can send on tx
analyze_streaming(model, text, mode, tokenizer_mode) ==
    LET tokens == tokenize_with_mode(text, tokenizer_mode)
        rest == IF mode \in {"Hybrid", "RulesOnly", "CrfOnly", "FeaturesOnly"}
                THEN analyze_streaming_standard(model, text, tokens, mode)
                ELSE IF mode \in {"Hmm", "MaxEnt", "Perceptron"}
                THEN analyze_streaming_ml(model, text, tokens, mode)
                ELSE analyze_streaming_span(model, text, tokens)
    IN IF tokens = <<>>
       THEN { <<TokenizationDone(tokens), Done(<<>>, <<>>, 0)>> }
       ELSE { <<TokenizationDone(tokens)>> \o events : events \in rest }

RECURSIVE last_done(_, _, _)
\* the receive loop of analyze_with_mode: what the last Done event carries
last_done(events, k, result) ==
    IF k > Len(events) THEN result
    ELSE IF events[k].kind = "Done"
    THEN last_done(events, k + 1,
                   [tagged |-> events[k].tagged_tokens, entities |-> events[k].entities])
    ELSE last_done(events, k + 1, result)

\* the results analyze_with_mode can return
analyze_with_mode(model, text, mode, tokenizer_mode) ==
    { last_done(events, 1, [tagged |-> <<>>, entities |-> <<>>]) :
        events \in analyze_streaming(model, text, mode, tokenizer_mode) }

\* std::sync::mpsc as analyze_with_mode uses it. channel(): an empty
\* unbounded queue and one Sender
mpsc_channel == [queue |-> <<>>, senders |-> 1]

\* tx.send(event): the event is queued whatever the queue holds
mpsc_send(chan, event) == [chan EXCEPT !.queue = Append(@, event)]

\* mutant: the Sender outlives analyze_streaming
mpsc_drop_leaked(chan) == chan

\* the Sender moved into analyze_streaming is dropped when it returns
mpsc_drop(chan) == [chan EXCEPT !.senders = @ - 1]

\* rx.recv(): Ok with the oldest event; Err once the queue is empty and no
\* Sender is left; it blocks while the queue is empty and a Sender lives
mpsc_recv(chan) ==
    IF chan.queue # <<>> THEN "Ok"
    ELSE IF chan.senders = 0 THEN "Err"
    ELSE "blocked"

\* the body of the receive loop of analyze_with_mode for one event
receive_event(locals, event) ==
    IF event.kind = "Done"
    THEN [locals EXCEPT !.tagged = event.tagged_tokens, !.entities = event.entities]
    ELSE locals

\* NerPipeline::analyze
analyze(model, text) == analyze_with_mode(model, text, "Hybrid", "Standard")

----------------------------------------------------------------------------
(* The state after construction: no call made, every model as new() *)

Init ==
    /\ op = "init"
    /\ arg = <<>>
    /\ ret = <<>>
    /\ calls = 0
    /\ crf = CrfModel_new
    /\ perc = PerceptronModel_new
    /\ hmm = HmmModel_new
    /\ maxent = MaxEntModel_new
    /\ span = SpanModel_new
    /\ inflight = [pc |-> "none"]

----------------------------------------------------------------------------
(* Inputs of the tag-vocabulary specification *)

LabelPieces ==
    { <<>>, <<"O">>, <<"B">>, <<"I">>, <<"b">>, <<"X">>,
      <<"P", "E", "R">>, <<"O", "R", "G">>, <<"L", "O", "C">>,
      <<"M", "I", "S", "C">>, <<"p", "e", "r">> }

RECURSIVE JoinDash(_)
JoinDash(ps) ==
    IF Len(ps) = 0 THEN <<>>
    ELSE IF Len(ps) = 1 THEN ps[1]
    ELSE ps[1] \o <<"-">> \o JoinDash(Tail(ps))

LabelInputs ==
    {JoinDash(ps) : ps \in (SeqsUpTo(LabelPieces, MaxSegs) \ {<<>>})}

CanonicalLabels == {label(t) : t \in Tag}

----------------------------------------------------------------------------
(* The tag-vocabulary specification: the pure functions of Tag applied to   *)
(* inputs drawn from bounded sets.                                          *)

Call_label ==
    /\ op = "init"
    /\ \E t \in Tag :
          /\ op' = "label"
          /\ arg' = t
          /\ ret' = label(t)
          /\ UNCHANGED state

Call_from_label ==
    /\ op = "init"
    /\ \E s \in LabelInputs :
          /\ op' = "from_label"
          /\ arg' = s
          /\ ret' = from_label(s)
          /\ UNCHANGED state

Call_is_valid_transition ==
    /\ op = "init"
    /\ \E prev \in Tag, next \in Tag :
          /\ op' = "is_valid_transition"
          /\ arg' = <<prev, next>>
          /\ ret' = is_valid_transition(prev, next)
          /\ UNCHANGED state

Call_index ==
    /\ op = "init"
    /\ \E t \in Tag :
          /\ op' = "index"
          /\ arg' = t
          /\ ret' = index(t)
          /\ UNCHANGED state

NextTag ==
    \/ Call_label
    \/ Call_from_label
    \/ Call_is_valid_transition
    \/ Call_index

SpecTag == Init /\ [][NextTag]_vars

----------------------------------------------------------------------------
(* The features specification: extract_features applied to token sequences *)
(* of up to MaxTokens words, with the empty gazetteers.                     *)

WordPetrobras == <<"P", "e", "t", "r", "o", "b", "r", "a", "s">>

\* words of one to nine characters, in lower, upper and mixed case, with
\* digits and punctuation
FeatureWords ==
    { <<"a">>, <<"é">>, <<"S", "A">>, <<"1", "9">>, <<"D", "r", ".">>,
      <<"S", "a", "o">>, <<"L", "u", "l", "a">>, <<"P", "e", "l", "é">>,
      <<"É", "d", "e", "r">>, WordPetrobras }

Call_extract_features ==
    /\ op = "init"
    /\ \E words \in SeqsUpTo(FeatureWords, MaxTokens) :
          /\ op' = "extract_features"
          /\ arg' = words
          /\ ret' = extract_features(TokensOf(words), Gazetteers_new)
    /\ UNCHANGED state

NextFeatures == Call_extract_features

SpecFeatures == Init /\ [][NextFeatures]_vars

----------------------------------------------------------------------------
(* Inputs of the span-reconstruction specification: token k (0-based) is    *)
(* the one-character word "w" at bytes 2k..2k+1 of "w w w ...".             *)

SpanTags == {Outside, Begin("Per"), Inside("Per"), Begin("Loc"), Inside("Loc")}

\* per-token confidences, in hundredths
ConfLevels == {60, 100}

TextOfLen(n) == [k \in 1..(IF n = 0 THEN 0 ELSE 2 * n - 1) |-> IF k % 2 = 1 THEN "w" ELSE " "]

TokenAt(k) == Token(<<"w">>, 2 * k, 2 * k + 1, k)

\* a tag sequence and a confidence sequence as tagged tokens
TaggedOf(tags, confs) ==
    [k \in 1..Len(tags) |-> TaggedToken(TokenAt(k - 1), tags[k], confs[k])]

SpanExampleTags == <<Outside, Begin("Per"), Inside("Per"), Outside, Begin("Loc")>>

SpanInputs ==
    { [k \in 1..Len(tc) |-> TaggedToken(TokenAt(k - 1), tc[k][1], tc[k][2])] :
        tc \in SeqsUpTo(SpanTags \X ConfLevels, MaxSpanTokens) }
    \cup { TaggedOf(SpanExampleTags, [k \in 1..5 |-> 100]) }

Call_tokens_to_spans ==
    /\ op = "init"
    /\ \E tagged \in SpanInputs :
          /\ op' = "tokens_to_spans"
          /\ arg' = [tagged |-> tagged, text |-> TextOfLen(Len(tagged))]
          /\ ret' = tokens_to_spans(tagged, TextOfLen(Len(tagged)))
          /\ UNCHANGED state

NextSpans == Call_tokens_to_spans

SpecSpans == Init /\ [][NextSpans]_vars

----------------------------------------------------------------------------
(* The bio_to_spans specification: the helper of span.rs run on sequences  *)
(* of BIO tag strings.                                                     *)

MaxBioTags == 5

BioTagStrings ==
    { <<"O">>, <<"B", "-", "P", "E", "R">>, <<"I", "-", "P", "E", "R">>,
      <<"B", "-", "L", "O", "C">>, <<"I", "-", "L", "O", "C">> }

Call_bio_to_spans ==
    /\ op = "init"
    /\ \E tags \in SeqsUpTo(BioTagStrings, MaxBioTags) :
          /\ op' = "bio_to_spans"
          /\ arg' = tags
          /\ ret' = bio_to_spans(tags)
          /\ UNCHANGED state

NextBio == Call_bio_to_spans

SpecBio == Init /\ [][NextBio]_vars

----------------------------------------------------------------------------
(* The CRF specification: a CrfModel built by new() and its setters, and    *)
(* viterbi_decode run on it.                                               *)

CrfFeatures == {Flag("bias"), Flag("is_capitalized")}

\* the tags the setters are called with
CrfSetTags == {Outside, Begin("Per"), Inside("Per")}

\* the weights the setters are called with
CrfWeights == {-3, 5, 12}

\* the feature vector of a token: bias always, is_capitalized when capitalised
CrfVector(i, capitalized) ==
    FeatureVector(i, IF capitalized
                     THEN [f \in {Flag("bias"), Flag("is_capitalized")} |-> 1]
                     ELSE [f \in {Flag("bias")} |-> 1])

CrfInputs ==
    { [i \in 1..Len(caps) |-> CrfVector(i - 1, caps[i])] :
        caps \in SeqsUpTo(BOOLEAN, MaxTokens) }

Call_set_emission ==
    /\ calls < MaxSets
    /\ op \in {"init", "set_emission", "set_transition"}
    /\ \E f \in CrfFeatures, t \in CrfSetTags, w \in CrfWeights :
          /\ crf' = set_emission(crf, f, t, w)
          /\ op' = "set_emission"
          /\ arg' = <<f, t, w>>
    /\ ret' = <<>>
    /\ calls' = calls + 1
    /\ UNCHANGED <<perc, hmm, maxent, span, inflight>>

Call_set_transition ==
    /\ calls < MaxSets
    /\ op \in {"init", "set_emission", "set_transition"}
    /\ \E from \in CrfSetTags, to \in CrfSetTags, w \in CrfWeights :
          /\ crf' = set_transition(crf, from, to, w)
          /\ op' = "set_transition"
          /\ arg' = <<from, to, w>>
    /\ ret' = <<>>
    /\ calls' = calls + 1
    /\ UNCHANGED <<perc, hmm, maxent, span, inflight>>

\* viterbi_decode borrows the model immutably: decoding twice in a row reaches
\* nothing a single decode does not, so a decode follows Init or a setter
Call_viterbi_decode ==
    /\ op \in {"init", "set_emission", "set_transition"}
    /\ \E fvs \in CrfInputs :
          /\ op' = "viterbi_decode"
          /\ arg' = fvs
          /\ ret' = viterbi_decode(crf, fvs)
    /\ UNCHANGED state

NextCrf ==
    \/ Call_set_emission
    \/ Call_set_transition
    \/ Call_viterbi_decode

SpecCrf == Init /\ [][NextCrf]_vars

----------------------------------------------------------------------------
(* The CRF scoring specification: a CrfModel built by new() and up to       *)
(* MaxScoreSets setter calls, and the two scoring functions asked of it.    *)

MaxScoreSets == 2

ScoreTags == {Outside, Begin("Per")}

ScoreWeights == {-3, 5}

\* feature vectors with values other than 1.0, and one with no feature
ScoreVectors ==
    { FeatureVector(0, [f \in {Flag("bias"), Flag("is_capitalized")} |-> 1]),
      FeatureVector(0, [f \in {Flag("is_capitalized")} |-> 2]),
      FeatureVector(0, EmptyMap) }

ScoreSetOps == {"init", "score_set_emission", "score_set_transition"}

Call_score_set_emission ==
    /\ calls < MaxScoreSets
    /\ op \in ScoreSetOps
    /\ \E f \in CrfFeatures, t \in ScoreTags, w \in ScoreWeights :
          /\ crf' = set_emission(crf, f, t, w)
          /\ op' = "score_set_emission"
          /\ arg' = <<f, t, w>>
    /\ ret' = <<>>
    /\ calls' = calls + 1
    /\ UNCHANGED <<perc, hmm, maxent, span, inflight>>

Call_score_set_transition ==
    /\ calls < MaxScoreSets
    /\ op \in ScoreSetOps
    /\ \E from \in ScoreTags, to \in ScoreTags, w \in ScoreWeights :
          /\ crf' = set_transition(crf, from, to, w)
          /\ op' = "score_set_transition"
          /\ arg' = <<from, to, w>>
    /\ ret' = <<>>
    /\ calls' = calls + 1
    /\ UNCHANGED <<perc, hmm, maxent, span, inflight>>

\* the scoring functions borrow the model immutably
Call_emission_score ==
    /\ op \in ScoreSetOps
    /\ \E features \in ScoreVectors, tag \in ScoreTags :
          /\ op' = "emission_score"
          /\ arg' = <<features, tag>>
          /\ ret' = emission_score(crf, features, tag)
    /\ UNCHANGED state

Call_transition_score ==
    /\ op \in ScoreSetOps
    /\ \E prev \in ScoreTags, next \in ScoreTags :
          /\ op' = "transition_score"
          /\ arg' = <<prev, next>>
          /\ ret' = transition_score(crf, prev, next)
    /\ UNCHANGED state

NextCrfScore ==
    \/ Call_score_set_emission
    \/ Call_score_set_transition
    \/ Call_emission_score
    \/ Call_transition_score

SpecCrfScore == Init /\ [][NextCrfScore]_vars

----------------------------------------------------------------------------
(* The CRF example specification: the setter calls of                       *)
(* test_viterbi_prefers_capitalized_as_per, in any order and number up to   *)
(* MaxExampleSets, and viterbi_decode run on the model they leave.          *)

MaxExampleSets == 3

\* the two set_emission calls of the test
ExampleEmissions ==
    { <<Flag("is_capitalized"), Begin("Per"), 5>>,
      <<Flag("is_capitalized"), Outside, -3>> }

\* the set_transition call of the test
ExampleTransitions == { <<Begin("Per"), Inside("Per"), 3>> }

ExampleSetOps == {"init", "example_set_emission", "example_set_transition"}

Call_example_set_emission ==
    /\ calls < MaxExampleSets
    /\ op \in ExampleSetOps
    /\ \E call \in ExampleEmissions :
          /\ crf' = set_emission(crf, call[1], call[2], call[3])
          /\ op' = "example_set_emission"
          /\ arg' = call
    /\ ret' = <<>>
    /\ calls' = calls + 1
    /\ UNCHANGED <<perc, hmm, maxent, span, inflight>>

Call_example_set_transition ==
    /\ calls < MaxExampleSets
    /\ op \in ExampleSetOps
    /\ \E call \in ExampleTransitions :
          /\ crf' = set_transition(crf, call[1], call[2], call[3])
          /\ op' = "example_set_transition"
          /\ arg' = call
    /\ ret' = <<>>
    /\ calls' = calls + 1
    /\ UNCHANGED <<perc, hmm, maxent, span, inflight>>

Call_example_decode ==
    /\ op \in ExampleSetOps
    /\ \E fvs \in CrfInputs :
          /\ op' = "example_decode"
          /\ arg' = fvs
          /\ ret' = viterbi_decode(crf, fvs)
    /\ UNCHANGED state

NextCrfExample ==
    \/ Call_example_set_emission
    \/ Call_example_set_transition
    \/ Call_example_decode

SpecCrfExample == Init /\ [][NextCrfExample]_vars

----------------------------------------------------------------------------
(* The softmax specification: scores_to_probs applied to score vectors of   *)
(* up to MaxScores finite scores.                                           *)

\* finite scores, some further apart than exp can tell from 0.0
ProbScores == {-5, -1, 0, 1, 2}

Call_scores_to_probs ==
    /\ op = "init"
    /\ \E scores \in SeqsUpTo(ProbScores, MaxScores) :
          /\ op' = "scores_to_probs"
          /\ arg' = scores
          /\ ret' = scores_to_probs(scores)
    /\ UNCHANGED state

NextProbs == Call_scores_to_probs

SpecProbs == Init /\ [][NextProbs]_vars

----------------------------------------------------------------------------
(* Inputs and actions of the tagger specifications *)

WordLula == <<"L", "u", "l", "a">>
WordE == <<"é">>
WordSao == <<"S", "a", "o">>

\* the annotated tokens corpora are drawn from
AnnotatedTokens == { <<WordLula, label(Begin("Per"))>>, <<WordE, label(Outside)>> }

\* sentences of up to MaxSentLen annotated tokens
Sentences ==
    { [annotations |-> a] : a \in SeqsUpTo(AnnotatedTokens, MaxSentLen) }

\* the empty corpus and the corpora of one sentence
Corpora == {<<>>} \cup { <<s>> : s \in Sentences }

\* the values of the iterations argument of PerceptronModel::train
PerceptronIterations == {0, 1, 2}

\* the words handed to predict: two of the corpus, one never seen
PredictWords == {WordLula, WordE, WordSao}

TokenInputs == SeqsUpTo(PredictWords, MaxTokens)

Call_perceptron_train ==
    /\ calls < MaxTrains
    /\ op \in {"init", "perceptron_train"}
    /\ \E corpus \in Corpora, iterations \in PerceptronIterations :
          /\ perc' = PerceptronModel_train(perc, corpus, iterations)
          /\ op' = "perceptron_train"
          /\ arg' = <<corpus, iterations>>
    /\ ret' = <<>>
    /\ calls' = calls + 1
    /\ UNCHANGED <<crf, hmm, maxent, span, inflight>>

\* predict borrows the model immutably and only train changes the model, so a
\* predict follows Init or a train
Call_perceptron_predict ==
    /\ op \in {"init", "perceptron_train"}
    /\ \E tokens \in TokenInputs :
          /\ op' = "perceptron_predict"
          /\ arg' = tokens
          /\ ret' = PerceptronModel_predict(perc, tokens)
    /\ UNCHANGED state

NextPerceptron ==
    \/ Call_perceptron_train
    \/ Call_perceptron_predict

SpecPerceptron == Init /\ [][NextPerceptron]_vars

Call_hmm_train ==
    /\ calls < MaxTrains
    /\ op \in {"init", "hmm_train"}
    /\ \E corpus \in Corpora :
          /\ hmm' = HmmModel_train(hmm, corpus)
          /\ op' = "hmm_train"
          /\ arg' = corpus
    /\ ret' = <<>>
    /\ calls' = calls + 1
    /\ UNCHANGED <<crf, perc, maxent, span, inflight>>

Call_hmm_predict ==
    /\ op \in {"init", "hmm_train"}
    /\ \E tokens \in TokenInputs :
          /\ op' = "hmm_predict"
          /\ arg' = tokens
          /\ ret' = HmmModel_predict(hmm, tokens)
    /\ UNCHANGED state

NextHmm ==
    \/ Call_hmm_train
    \/ Call_hmm_predict

SpecHmm == Init /\ [][NextHmm]_vars

----------------------------------------------------------------------------
(* The HMM example specification: test_hmm_basic_training. A fresh model is *)
(* trained on one sentence made of the test's annotations, the test's own   *)
(* sentence among them, and asked to predict sequences of the test's words. *)

WordPresidente == <<"p", "r", "e", "s", "i", "d", "e", "n", "t", "e">>

\* annotations: &[("Lula", "B-PER"), ("é", "O"), ("presidente", "O")]
ExampleAnnotations ==
    << <<WordLula, label(Begin("Per"))>>,
       <<WordE, label(Outside)>>,
       <<WordPresidente, label(Outside)>> >>

\* the sentences of the test's annotations, up to the length of the test's own
ExampleSentences ==
    { [annotations |-> a] :
        a \in SeqsUpTo({ExampleAnnotations[k] : k \in 1..Len(ExampleAnnotations)},
                       Len(ExampleAnnotations)) }

ExampleTokens ==
    SeqsUpTo({ExampleAnnotations[k][1] : k \in 1..Len(ExampleAnnotations)},
             Len(ExampleAnnotations))

\* let mut model = HmmModel::new(); model.train(&corpus)
Call_example_hmm_train ==
    /\ op = "init"
    /\ \E sentence \in ExampleSentences :
          /\ hmm' = HmmModel_train(hmm, <<sentence>>)
          /\ op' = "example_hmm_train"
          /\ arg' = <<sentence>>
    /\ ret' = <<>>
    /\ calls' = calls + 1
    /\ UNCHANGED <<crf, perc, maxent, span, inflight>>

Call_example_hmm_predict ==
    /\ op = "example_hmm_train"
    /\ \E tokens \in ExampleTokens :
          /\ op' = "example_hmm_predict"
          /\ arg' = tokens
          /\ ret' = HmmModel_predict(hmm, tokens)
    /\ UNCHANGED state

NextHmmExample ==
    \/ Call_example_hmm_train
    \/ Call_example_hmm_predict

SpecHmmExample == Init /\ [][NextHmmExample]_vars

\* the values of the iterations argument of MaxEntModel::train; learning_rate
\* and lambda are the 0.1 and 0.01 of NerModel::build
MaxEntIterations == {0, 10}

Call_maxent_train ==
    /\ calls < MaxTrains
    /\ op \in {"init", "maxent_train"}
    /\ \E corpus \in Corpora, iterations \in MaxEntIterations :
          /\ maxent' \in MaxEntModel_train(maxent, corpus, iterations)
          /\ op' = "maxent_train"
          /\ arg' = <<corpus, iterations>>
    /\ ret' = <<>>
    /\ calls' = calls + 1
    /\ UNCHANGED <<crf, perc, hmm, span, inflight>>

Call_maxent_predict ==
    /\ op \in {"init", "maxent_train"}
    /\ \E tokens \in TokenInputs :
          /\ op' = "maxent_predict"
          /\ arg' = tokens
          /\ ret' \in MaxEntModel_predict(maxent, tokens)
    /\ UNCHANGED state

NextMaxEnt ==
    \/ Call_maxent_train
    \/ Call_maxent_predict

SpecMaxEnt == Init /\ [][NextMaxEnt]_vars

\* the values of the iterations argument of SpanModel::train
SpanIterations == {0, 1, 2}

Call_span_train ==
    /\ calls < MaxTrains
    /\ op \in {"init", "span_train"}
    /\ \E corpus \in Corpora, iterations \in SpanIterations :
          /\ span' = SpanModel_train(span, corpus, iterations)
          /\ op' = "span_train"
          /\ arg' = <<corpus, iterations>>
    /\ ret' = <<>>
    /\ calls' = calls + 1
    /\ UNCHANGED <<crf, perc, hmm, maxent, inflight>>

\* the token sequences handed to SpanModel::predict: any Strings, the empty
\* String among them
SpanTokenInputs == SeqsUpTo(PredictWords \cup {<<>>}, MaxTokens)

Call_span_predict ==
    /\ op \in {"init", "span_train"}
    /\ \E tokens \in SpanTokenInputs :
          /\ op' = "span_predict"
          /\ arg' = tokens
          /\ ret' = SpanModel_predict(span, tokens)
    /\ UNCHANGED state

NextSpanModel ==
    \/ Call_span_train
    \/ Call_span_predict

SpecSpanModel == Init /\ [][NextSpanModel]_vars

\* the texts analyze is given
Texts ==
    { <<>>, <<" ">>,
      WordLula \o <<" ">> \o WordE \o <<".">>,
      <<"D", "r">> \o <<" ">> \o WordLula,
      <<"D", "r", ".">> \o <<" ">> \o WordPele,
      WordLula \o <<" ">> \o <<"S", "A">>,
      WordPele \o <<" ">> \o WordPele }

Call_analyze ==
    /\ op \in {"init", "set_emission", "set_transition"}
    /\ \E text \in Texts :
          /\ op' = "analyze"
          /\ arg' = text
          /\ ret' \in analyze(NerModel(crf, hmm, maxent, perc, span), text)
    /\ UNCHANGED state

NextPipeline ==
    \/ Call_set_emission
    \/ Call_set_transition
    \/ Call_analyze

SpecPipeline == Init /\ [][NextPipeline]_vars

----------------------------------------------------------------------------
(* The streaming specification: a pipeline built by NerPipeline::new() and  *)
(* analyze_streaming run on it in every mode.                              *)

MaxStreamTokens == 3

\* get_corpus() is one fixed corpus, of sentences with several tags; as samples
\* of it, the corpora of one sentence of two tokens with two tags
BuildCorpora ==
    { corpus \in Corpora :
        /\ Cardinality(CorpusTags(corpus)) > 1
        /\ \A s \in 1..Len(corpus) : Len(corpus[s].annotations) = 2 }

StreamTexts ==
    Texts \cup
    { <<"é">>, <<"a", "s">>, <<"a", " ", "é", ".">>, <<"L", "u", "l", "i", "s", "t", "a">>,
      WordLula \o <<"-", "s", "e">>,
      <<"e", "s", "t", "a", "d", "o", "s", " ", "u", "n", "i", "d", "o", "s">> }

\* the texts and tokenizer modes that give at most MaxStreamTokens tokens
StreamInputs ==
    { in \in StreamTexts \X TokenizerMode :
        Len(tokenize_with_mode(in[1], in[2])) <= MaxStreamTokens }

\* NerPipeline::new(): the models of the pipeline are built
Call_build ==
    /\ op = "init"
    /\ \E corpus \in BuildCorpora : \E model \in NerModel_build(corpus) :
          /\ crf' = model.crf
          /\ hmm' = model.hmm
          /\ maxent' = model.maxent
          /\ perc' = model.perceptron
          /\ span' = model.span
          /\ arg' = corpus
    /\ op' = "build"
    /\ ret' = <<>>
    /\ UNCHANGED <<calls, inflight>>

Call_analyze_streaming ==
    /\ op = "build"
    /\ \E in \in StreamInputs, mode \in AlgorithmMode :
          /\ op' = "analyze_streaming"
          /\ arg' = [text |-> in[1], mode |-> mode, tokenizer_mode |-> in[2]]
          /\ ret' \in analyze_streaming(NerModel(crf, hmm, maxent, perc, span),
                                        in[1], mode, in[2])
    /\ UNCHANGED state

NextStream ==
    \/ Call_build
    \/ Call_analyze_streaming

SpecStream == Init /\ [][NextStream]_vars

----------------------------------------------------------------------------
(* The channel specification: analyze_with_mode on a built pipeline, step  *)
(* by step: the events analyze_streaming sends, the drop of the Sender at  *)
(* its return, and the receive loop.                                       *)

\* the texts of analyze and a text of single characters, in every tokenizer
\* mode
ChannelInputs == {in \in StreamInputs : in[1] \in Texts \cup {<<"a", " ", "é", ".">>}}

\* analyze_with_mode is entered: the channel is made and analyze_streaming
\* starts on the events it is going to send
Call_analyze_with_mode ==
    /\ op = "build"
    /\ \E in \in ChannelInputs, mode \in AlgorithmMode :
          /\ arg' = [text |-> in[1], mode |-> mode, tokenizer_mode |-> in[2]]
          /\ \E events \in analyze_streaming(NerModel(crf, hmm, maxent, perc, span),
                                              in[1], mode, in[2]) :
                inflight' = [ pc |-> "streaming", chan |-> mpsc_channel, events |-> events,
                              tagged |-> <<>>, entities |-> <<>> ]
    /\ op' = "analyze_with_mode"
    /\ ret' = <<>>
    /\ UNCHANGED <<calls, models>>

\* analyze_streaming sends its next event
Step_send ==
    /\ inflight.pc = "streaming"
    /\ Len(inflight.chan.queue) < Len(inflight.events)
    /\ inflight.events[Len(inflight.chan.queue) + 1] # Unwound
    /\ inflight' = [inflight EXCEPT
                       !.chan = mpsc_send(@, inflight.events[Len(inflight.chan.queue) + 1])]
    /\ op' = "send"
    /\ UNCHANGED <<arg, ret, calls, models>>

\* analyze_streaming returns: its Sender goes out of scope
Step_streaming_returns ==
    /\ inflight.pc = "streaming"
    /\ Len(inflight.chan.queue) = Len(inflight.events)
    /\ inflight' = [inflight EXCEPT !.chan = mpsc_drop(@), !.pc = "receiving"]
    /\ op' = "streaming_returns"
    /\ UNCHANGED <<arg, ret, calls, models>>

\* while let Ok(event) = rx.recv()
Step_recv ==
    /\ inflight.pc = "receiving"
    /\ mpsc_recv(inflight.chan) = "Ok"
    /\ inflight' = [receive_event(inflight, Head(inflight.chan.queue)) EXCEPT
                       !.chan.queue = Tail(@)]
    /\ op' = "recv"
    /\ UNCHANGED <<arg, ret, calls, models>>

\* recv gives Err: the loop ends and analyze_with_mode returns
Step_return ==
    /\ inflight.pc = "receiving"
    /\ mpsc_recv(inflight.chan) = "Err"
    /\ inflight' = [inflight EXCEPT !.pc = "returned"]
    /\ op' = "return"
    /\ ret' = [tagged |-> inflight.tagged, entities |-> inflight.entities]
    /\ UNCHANGED <<arg, calls, models>>

NextChannel ==
    \/ Call_build
    \/ Call_analyze_with_mode
    \/ Step_send
    \/ Step_streaming_returns
    \/ Step_recv
    \/ Step_return

\* the calling thread runs on: a step that can be taken is taken
SpecChannel ==
    /\ Init
    /\ [][NextChannel]_vars
    /\ WF_vars(Step_send \/ Step_streaming_returns \/ Step_recv \/ Step_return)

----------------------------------------------------------------------------
(* The shared-pipeline specification: callers of analyze_streaming on one  *)
(* NerPipeline behind an Arc, each with a channel of its own, their steps   *)
(* interleaved. A step of a call reads the pipeline as it is at that step.  *)

MaxCallers == 2

SharedInputs ==
    << [text |-> <<"é">>, mode |-> "MaxEnt", tokenizer_mode |-> "CharLevel"],
       [text |-> WordLula, mode |-> "Hmm", tokenizer_mode |-> "Aggressive"] >>

\* mutant: every call sends on the first call's channel
channel_shared(caller) == 1

\* the channel a call sends on: the one made for it
channel_of(caller) == caller

\* the event sequences the call can send on the pipeline as it is now
runs_now(args) ==
    analyze_streaming(NerModel(crf, hmm, maxent, perc, span), args.text, args.mode,
                      args.tokenizer_mode)

\* a caller takes a clone of the Arc, makes its channel and enters
\* analyze_streaming. Which of the sequences the call can send it will send
\* (events) is settled here: what is left open in a call is a choice the
\* pipeline makes on its own, on no other call
Spawn_analyze_streaming ==
    /\ \/ op = "build" /\ inflight.pc = "none"
       \/ inflight.pc = "shared" /\ Len(inflight.callers) < MaxCallers
    /\ \E i \in 1..Len(SharedInputs) :
          \* callers are interchangeable: they are listed in the order of
          \* their inputs
          /\ inflight.pc = "shared" => inflight.callers[Len(inflight.callers)].input <= i
          /\ arg' = SharedInputs[i]
          /\ \E events \in runs_now(SharedInputs[i]) :
                inflight' =
                   [ pc       |-> "shared",
                     callers  |-> (IF inflight.pc = "none" THEN <<>> ELSE inflight.callers)
                                  \o <<[input |-> i, args |-> SharedInputs[i],
                                        events |-> events, sent |-> 0, returned |-> FALSE]>>,
                     channels |-> (IF inflight.pc = "none" THEN <<>> ELSE inflight.channels)
                                  \o << <<>> >> ]
    /\ op' = "spawn"
    /\ ret' = <<>>
    /\ UNCHANGED <<calls, models>>

\* a call sends its next event
Step_event ==
    /\ inflight.pc = "shared"
    /\ \E c \in 1..Len(inflight.callers) :
          /\ ~inflight.callers[c].returned
          /\ inflight.callers[c].sent < Len(inflight.callers[c].events)
          /\ inflight.callers[c].events[inflight.callers[c].sent + 1] # Unwound
          /\ inflight' =
                [inflight EXCEPT
                   !.callers[c].sent = @ + 1,
                   !.channels[channel_of(c)] =
                       Append(@, inflight.callers[c].events[inflight.callers[c].sent + 1])]
          /\ arg' = c
    /\ op' = "event"
    /\ UNCHANGED <<ret, calls, models>>

\* a call has sent its last event and returns
Step_returns ==
    /\ inflight.pc = "shared"
    /\ \E c \in 1..Len(inflight.callers) :
          /\ ~inflight.callers[c].returned
          /\ inflight.callers[c].sent = Len(inflight.callers[c].events)
          /\ inflight' = [inflight EXCEPT !.callers[c].returned = TRUE]
          /\ arg' = c
    /\ op' = "returns"
    /\ UNCHANGED <<ret, calls, models>>

NextShared ==
    \/ Call_build
    \/ Spawn_analyze_streaming
    \/ Step_event
    \/ Step_returns

SpecShared == Init /\ [][NextShared]_vars

----------------------------------------------------------------------------
(* main.rs: handle_websocket, one connection served over the pipeline of   *)
(* NerPipeline::new(). The pipeline task runs on a thread of its own and   *)
(* the handler awaits it; the client's messages and the outcome of every   *)
(* send are the environment's choice.                                      *)

MaxMessages == 2

\* serde_json::to_string of a PipelineEvent: {"type": variant, "data": fields}
to_json(event) ==
    [ type |-> event.kind,
      data |-> [f \in (DOMAIN event) \ {"kind"} |-> event[f]] ]

\* the message sent when the task's JoinHandle gives an error
ErrorMessage == [type |-> "Error", data |-> [message |-> "Erro interno no pipeline"]]

None == [some |-> FALSE]

\* a text message holds a WsRequest when serde_json::from_str accepts it
\* (json), and is taken as the text itself otherwise
SocketMessages ==
    { [kind |-> "Text", json |-> TRUE, text |-> <<" ", "é", " ">>, mode |-> Some("MaxEnt"),
       tokenizer_mode |-> Some("CharLevel")],
      [kind |-> "Text", json |-> TRUE, text |-> WordLula, mode |-> Some("Hmm"),
       tokenizer_mode |-> None],
      [kind |-> "Text", json |-> FALSE, text |-> <<" ", "é">>],
      [kind |-> "Text", json |-> TRUE, text |-> <<" ">>, mode |-> None,
       tokenizer_mode |-> None],
      [kind |-> "Text", json |-> FALSE, text |-> <<>>],
      [kind |-> "Close"],
      [kind |-> "Ping"],
      [kind |-> "Binary"] }

\* (text_str, mode, tokenizer_mode) of a text message
request(msg) ==
    IF msg.json
    THEN [ text |-> trim(msg.text),
           mode |-> IF msg.mode.some THEN msg.mode.val ELSE "Hybrid",
           tokenizer_mode |-> IF msg.tokenizer_mode.some THEN msg.tokenizer_mode.val
                              ELSE "Standard" ]
    ELSE [text |-> trim(msg.text), mode |-> "Hybrid", tokenizer_mode |-> "Standard"]

\* mutant: a failed send of an event is passed over
send_failed_ignored(events) == IF Len(events) > 1 THEN "sending" ELSE "recv"

\* where the handler goes when sending the first of events fails: it returns
send_failed(events) == "ended"

\* the upgrade hands the socket to handle_websocket
Accept ==
    /\ op = "build"
    /\ inflight.pc = "none"
    /\ inflight' = [ pc |-> "recv", served |-> 0, msg |-> [kind |-> "none"], args |-> <<>>,
                     task |-> "none", run |-> <<>>, chan |-> <<>>, events |-> <<>>,
                     out |-> <<>>,
                     failed |-> "none", panics |-> 0 ]
    /\ op' = "accept"
    /\ arg' = <<>>
    /\ ret' = <<>>
    /\ UNCHANGED <<calls, models>>

\* what every arm of the match begins with: the message is taken and the
\* record of the one before it is cleared
taken(msg) ==
    [inflight EXCEPT !.served = @ + 1, !.msg = msg, !.args = <<>>, !.task = "none",
                     !.run = <<>>, !.chan = <<>>, !.events = <<>>, !.out = <<>>,
                     !.failed = "none"]

\* Message::Text: an empty text_str goes back to recv, any other starts the
\* blocking task with a channel of its own. Which of the sequences the run
\* can send it will send (run) is settled here
Recv_text ==
    /\ inflight.pc = "recv"
    /\ inflight.served < MaxMessages
    /\ \E msg \in { m \in SocketMessages : m.kind = "Text" } :
          /\ arg' = msg
          /\ IF request(msg).text = <<>>
             THEN inflight' = taken(msg)
             ELSE \E events \in runs_now(request(msg)) :
                     inflight' = [taken(msg) EXCEPT !.pc = "task", !.args = request(msg),
                                                    !.task = "running", !.run = events]
    /\ op' = "recv_text"
    /\ UNCHANGED <<ret, calls, models>>

\* the task sends its next event on tx_std
Task_send ==
    /\ inflight.pc = "task"
    /\ inflight.task = "running"
    /\ Len(inflight.chan) < Len(inflight.run)
    /\ inflight.run[Len(inflight.chan) + 1] # Unwound
    /\ inflight' = [inflight EXCEPT !.chan = Append(@, inflight.run[Len(@) + 1])]
    /\ op' = "task_send"
    /\ UNCHANGED <<arg, ret, calls, models>>

\* analyze_streaming returns and the closure with it
Task_returns ==
    /\ inflight.pc = "task"
    /\ inflight.task = "running"
    /\ inflight.chan = inflight.run
    /\ inflight' = [inflight EXCEPT !.task = "finished"]
    /\ op' = "task_returns"
    /\ UNCHANGED <<arg, ret, calls, models>>

\* the blocking thread unwinds: the JoinHandle will give an error. The
\* handler serves this whatever raised it and at whatever event
Task_panics ==
    /\ inflight.pc = "task"
    /\ inflight.task = "running"
    /\ inflight' = [inflight EXCEPT !.task = "panicked", !.panics = 1]
    /\ op' = "task_panics"
    /\ UNCHANGED <<arg, ret, calls, models>>

\* handle.await is over. On an error one Error message is sent, its outcome
\* dropped, and the loop goes on; otherwise try_iter collects the channel
Await_task ==
    /\ inflight.pc = "task"
    /\ inflight.task # "running"
    /\ \/ /\ inflight.task = "panicked"
          /\ \E sent \in BOOLEAN :
                inflight' = [inflight EXCEPT
                               !.pc = "recv",
                               !.out = IF sent THEN <<ErrorMessage>> ELSE <<>>,
                               !.failed = IF sent THEN "none" ELSE "Error"]
       \/ /\ inflight.task = "finished"
          /\ inflight' = [inflight EXCEPT
                            !.pc = IF inflight.chan = <<>> THEN "recv" ELSE "sending",
                            !.events = inflight.chan]
    /\ op' = "await"
    /\ UNCHANGED <<arg, ret, calls, models>>

\* one turn of the for loop: the event is serialised and sent; a send that
\* fails returns from the handler
Send_event ==
    /\ inflight.pc = "sending"
    /\ inflight.events # <<>>
    /\ \E sent \in BOOLEAN :
          inflight' =
             IF sent
             THEN [inflight EXCEPT
                     !.out = Append(@, to_json(Head(inflight.events))),
                     !.events = Tail(@),
                     !.pc = IF Len(inflight.events) > 1 THEN "sending" ELSE "recv"]
             ELSE [inflight EXCEPT
                     !.events = Tail(@),
                     !.failed = "event",
                     !.pc = send_failed(inflight.events)]
    /\ op' = "send_event"
    /\ UNCHANGED <<arg, ret, calls, models>>

\* Message::Close
Recv_close ==
    /\ inflight.pc = "recv"
    /\ inflight' = [taken([kind |-> "Close"]) EXCEPT !.pc = "ended"]
    /\ op' = "recv_close"
    /\ arg' = [kind |-> "Close"]
    /\ UNCHANGED <<ret, calls, models>>

\* Message::Ping: a Pong is sent and the outcome dropped
Recv_ping ==
    /\ inflight.pc = "recv"
    /\ inflight.served < MaxMessages
    /\ \E sent \in BOOLEAN :
          inflight' = [taken([kind |-> "Ping"]) EXCEPT
                         !.out = IF sent THEN <<[type |-> "Pong"]>> ELSE <<>>,
                         !.failed = IF sent THEN "none" ELSE "Pong"]
    /\ op' = "recv_ping"
    /\ arg' = [kind |-> "Ping"]
    /\ UNCHANGED <<ret, calls, models>>

\* any other message
Recv_other ==
    /\ inflight.pc = "recv"
    /\ inflight.served < MaxMessages
    /\ inflight' = taken([kind |-> "Binary"])
    /\ op' = "recv_other"
    /\ arg' = [kind |-> "Binary"]
    /\ UNCHANGED <<ret, calls, models>>

\* socket.recv() gives None or an error: the while let ends
Recv_none ==
    /\ inflight.pc = "recv"
    /\ inflight' = [inflight EXCEPT !.pc = "ended"]
    /\ op' = "recv_none"
    /\ arg' = <<>>
    /\ UNCHANGED <<ret, calls, models>>

NextSocket ==
    \/ Call_build
    \/ Accept
    \/ Recv_text
    \/ Task_send
    \/ Task_returns
    \/ Task_panics
    \/ Await_task
    \/ Send_event
    \/ Recv_close
    \/ Recv_ping
    \/ Recv_other
    \/ Recv_none

SpecSocket == Init /\ [][NextSocket]_vars

\* every operation of the library, on the objects of one program
Next ==
    \/ NextSpans
    \/ NextCrf
    \/ NextPerceptron
    \/ NextHmm
    \/ NextMaxEnt
    \/ NextSpanModel
    \/ NextPipeline

Spec == Init /\ [][Next]_vars

----------------------------------------------------------------------------
(* C4: for every ordered pair (prev, next) of the nine tags,               *)
(* is_valid_transition is false exactly when next is Inside(c) and prev is *)
(* neither Begin(c) nor Inside(c); every transition into Outside or into a *)
(* Begin is valid.                                                         *)
C4_ValidTransitionExact ==
    op = "is_valid_transition" =>
        LET prev == arg[1]
            next == arg[2]
            illegal == /\ next.kind = "Inside"
                       /\ prev # Begin(next.cat)
                       /\ prev # Inside(next.cat)
        IN /\ ret = ~illegal
           /\ (next.kind \in {"Outside", "Begin"} => ret = TRUE)

C4_Witness ==
    /\ op = "is_valid_transition"
    /\ arg = <<Begin("Org"), Inside("Per")>>
    /\ ret = FALSE

(* C5: for each of the nine tags t, from_label(label(t)) = Some(t), and    *)
(* distinct tags have distinct labels.                                     *)
C5_LabelRoundTrip ==
    op = "label" =>
        /\ from_label(ret) = Some(arg)
        /\ \A u \in Tag : label(u) = ret => u = arg

C5_Witness ==
    /\ op = "label"
    /\ arg = Inside("Misc")
    /\ ret = <<"I", "-", "M", "I", "S", "C">>

(* C6: from_label returns a tag only for the nine canonical labels and     *)
(* None for every other string (empty, unknown prefix or category,         *)
(* lower case, extra '-' segments); it never fails.                        *)
C6_FromLabelTotal ==
    op = "from_label" =>
        /\ ret \in ({Some(t) : t \in Tag} \cup {NoTag})
        /\ ret.some <=> arg \in CanonicalLabels
        /\ ret.some => label(ret.val) = arg

C6_Witness ==
    /\ op = "from_label"
    /\ arg = <<"B", "-", "P", "E", "R", "-", "X">>
    /\ ret = NoTag

(* C7: tokens_to_spans returns exactly one span per Begin tag, in          *)
(* left-to-right order; the span of a Begin(c) at position i covers i and  *)
(* the maximal run of immediately following Inside(c) tokens and nothing   *)
(* else; an Inside that continues no run opens no span; spans are pairwise *)
(* disjoint; [O, B-PER, I-PER, O, B-LOC] yields PER over 1..2 and LOC over *)
(* token 4.                                                                *)
C7_BeginPositions(tagged) == {i \in 1..Len(tagged) : tagged[i].tag.kind = "Begin"}

C7_OneSpanPerBegin ==
    op = "tokens_to_spans" =>
        LET tagged == arg.tagged
            begins == C7_BeginPositions(tagged)
            \* 1-based position of the Begin that the k-th span must come from
            nth(k) == CHOOSE i \in begins : Cardinality({b \in begins : b < i}) = k - 1
            \* last 1-based position of the maximal Inside(c) run after i
            last(i) == CHOOSE e \in i..Len(tagged) :
                          /\ \A j \in (i + 1)..e : tagged[j].tag = Inside(tagged[i].tag.cat)
                          /\ (e < Len(tagged) =>
                                tagged[e + 1].tag # Inside(tagged[i].tag.cat))
        IN /\ Len(ret) = Cardinality(begins)
           /\ \A k \in 1..Len(ret) :
                /\ ret[k].category = tagged[nth(k)].tag.cat
                /\ ret[k].start_token = nth(k) - 1
                /\ ret[k].end_token = last(nth(k)) - 1
           /\ \A k \in 1..Len(ret), m \in 1..Len(ret) :
                k < m => ret[k].end_token < ret[m].start_token
           /\ (Len(tagged) = 5 /\ [k \in 1..5 |-> tagged[k].tag] = SpanExampleTags
                 => /\ Len(ret) = 2
                    /\ <<ret[1].category, ret[1].start_token, ret[1].end_token>> = <<"Per", 1, 2>>
                    /\ <<ret[2].category, ret[2].start_token, ret[2].end_token>> = <<"Loc", 4, 4>>)

C7_Witness ==
    /\ op = "tokens_to_spans"
    /\ Len(arg.tagged) = 4
    /\ [k \in 1..4 |-> arg.tagged[k].tag]
         = <<Inside("Loc"), Begin("Per"), Inside("Per"), Inside("Loc")>>
    /\ Len(ret) = 1
    /\ ret[1].end_token = 2

C7_WitnessExample ==
    /\ op = "tokens_to_spans"
    /\ Len(arg.tagged) = 5
    /\ Len(ret) = 2

(* C1: for every CRF model and non-empty feature-vector sequence,          *)
(* viterbi_decode returns the highest-scoring tag sequence, the score of a *)
(* sequence being its emission scores plus its transition scores with 10.0 *)
(* subtracted for every illegal transition: no other sequence of the same  *)
(* length scores strictly higher, and best_score is the score of           *)
(* best_sequence.                                                          *)
C1_SeqScore(model, fvs, seq) ==
    SumOver(1..Len(seq), [i \in 1..Len(seq) |-> emission_score(model, fvs[i], seq[i])])
    + SumOver(2..Len(seq),
              [i \in 2..Len(seq) |->
                  transition_score(model, seq[i - 1], seq[i])
                  - (IF is_valid_transition(seq[i - 1], seq[i]) THEN 0 ELSE 10)])

C1_ViterbiOptimal ==
    (op = "viterbi_decode" /\ Len(arg) > 0) =>
        /\ ret.best_score = C1_SeqScore(crf, arg, ret.best_sequence)
        /\ \A seq \in [1..Len(arg) -> Tag] :
              C1_SeqScore(crf, arg, seq) <= ret.best_score

(* C2 as claimed: for every CRF model and every feature-vector sequence    *)
(* the returned best_sequence is BIO-legal: every adjacent pair satisfies  *)
(* is_valid_transition.                                                    *)
C2_IsLegal(seq) ==
    \A i \in 1..(Len(seq) - 1) : is_valid_transition(seq[i], seq[i + 1])

C2_AlwaysLegal ==
    op = "viterbi_decode" => C2_IsLegal(ret.best_sequence)

(* C2 as amended: viterbi_decode returns a result for every model and      *)
(* input, one tag of the vocabulary per feature vector; on the untrained   *)
(* model (all weights zero) the returned best_sequence is BIO-legal.       *)
C2_LegalWhenUntrained ==
    op = "viterbi_decode" =>
        /\ DOMAIN ret = {"best_sequence", "best_score", "steps"}
        /\ ret.best_sequence \in [1..Len(arg) -> Tag]
        /\ (crf = CrfModel_new => C2_IsLegal(ret.best_sequence))

C2_Witness ==
    /\ op = "viterbi_decode"
    /\ crf = CrfModel_new
    /\ Len(arg) = 2
    /\ ret.best_sequence = <<Outside, Begin("Misc")>>

----------------------------------------------------------------------------
(* C3 *)

RECURSIVE C3_Stream(_, _)
\* the <<feature vector, true tag>> pairs of one pass over the corpus from
\* sentence s on, in the order train visits them
C3_Stream(corpus, s) ==
    IF s > Len(corpus) THEN <<>>
    ELSE LET ann == corpus[s].annotations
             fvs == extract_features(TokensOf([i \in 1..Len(ann) |-> ann[i][1]]),
                                     Gazetteers_new)
         IN [i \in 1..Len(ann) |-> <<fvs[i], ann[i][2]>>] \o C3_Stream(corpus, s + 1)

\* the naive reference on one token: predict with the live weights, on a mistake
\* add 1 for the true tag and subtract 1 for the predicted one on every active
\* feature, then add every live weight to its running sum
C3_NaiveToken(ref, fv, true_tag) ==
    LET pred_tag == predict_single(ref, fv)
        feats == DOMAIN fv.features
        touched == {<<f, true_tag>> : f \in feats} \cup {<<f, pred_tag>> : f \in feats}
        live == IF pred_tag = true_tag THEN ref.weights
                ELSE [ k \in (DOMAIN ref.weights) \cup touched |->
                         GetOr(ref.weights, k, 0)
                         + (IF k \in touched /\ k[2] = true_tag THEN 1 ELSE 0)
                         - (IF k \in touched /\ k[2] = pred_tag THEN 1 ELSE 0) ]
    IN [ref EXCEPT !.weights = live,
                   !.sum = [k \in DOMAIN live |-> GetOr(@, k, 0) + live[k]],
                   !.steps = @ + 1]

RECURSIVE C3_NaiveFrom(_, _, _, _)
C3_NaiveFrom(ref, stream, i, iterations) ==
    IF iterations = 0 THEN ref
    ELSE IF i > Len(stream) THEN C3_NaiveFrom(ref, stream, 1, iterations - 1)
    ELSE C3_NaiveFrom(C3_NaiveToken(ref, stream[i][1], stream[i][2]),
                      stream, i + 1, iterations)

C3_Naive(corpus, iterations) ==
    C3_NaiveFrom([weights |-> EmptyMap, sum |-> EmptyMap, steps |-> 0,
                  tags |-> SortedVec(CorpusTags(corpus))],
                 C3_Stream(corpus, 1), 1, iterations)

\* C3: a train on a fresh PerceptronModel leaves, for every (feature, tag) key,
\* the weight the naive reference computes: the sum of the key's live weight
\* after every processed token divided by the number of steps (the quotients
\* are compared by cross-multiplication), over the same set of keys.
C3_LazyEqualsNaive ==
    [][ (perc = PerceptronModel_new /\ op' = "perceptron_train") =>
          LET ref == C3_Naive(arg'[1], arg'[2])
          IN /\ perc'.steps = ref.steps
             /\ DOMAIN perc'.weights = DOMAIN ref.sum
             /\ ref.steps > 0 => perc'.scale = ref.steps
             /\ \A key \in DOMAIN ref.sum :
                   perc'.weights[key] * ref.steps = ref.sum[key] * perc'.scale ]_vars

\* a training run of at least two steps in which a weight changed part-way, so
\* that its average is not an integer
C3_Witness ==
    /\ op = "perceptron_train"
    /\ calls = 1
    /\ perc.steps >= 2
    /\ \E key \in DOMAIN perc.weights : perc.weights[key] % perc.scale # 0

----------------------------------------------------------------------------
(* C10 *)

\* ln of a strictly positive probability
C10_Positive(p) == p.num > 0 /\ p.den > 0

\* a start entry per known tag, a transition entry per ordered pair of known
\* tags, an emission entry per known tag and word of the vocabulary or <UNK>
C10_Complete(model) ==
    LET tags == {model.all_tags[s] : s \in 1..Len(model.all_tags)}
    IN /\ \A t \in tags :
             t \in DOMAIN model.start_probs /\ C10_Positive(model.start_probs[t])
       /\ \A k \in tags \X tags :
             k \in DOMAIN model.transition_probs
             /\ C10_Positive(model.transition_probs[k])
       /\ \A k \in tags \X (model.vocab \cup {UNK}) :
             k \in DOMAIN model.emission_probs
             /\ C10_Positive(model.emission_probs[k])

\* C10: after HmmModel::train the model holds a start entry for every known tag,
\* a transition entry for every ordered pair of known tags and an emission entry
\* for every known tag and every word of the vocabulary or <UNK>, each the
\* logarithm of a strictly positive probability; and a predict looks up, for
\* every token, the emission of a word of the vocabulary or <UNK>, so that no
\* cell of its Viterbi table is the negative-infinity fallback.
C10_TrainedHmmComplete ==
    /\ op = "hmm_train" => C10_Complete(hmm)
    /\ (op = "hmm_predict" /\ arg # <<>> /\ hmm.all_tags # <<>>) =>
          /\ C10_Complete(hmm)
          /\ \A t \in 1..Len(arg) :
                hmm_token(hmm, arg, t) \in hmm.vocab \cup {UNK}
          /\ LET rows == hmm_viterbi(hmm, arg, Len(arg))
             IN \A t \in 1..Len(arg) : \A s \in 1..Len(hmm.all_tags) :
                   C10_Positive(rows[t][s].prob)

\* a predict on a model trained with two tags, over two tokens of which one is
\* out of the vocabulary
C10_Witness ==
    /\ op = "hmm_predict"
    /\ Len(hmm.all_tags) = 2
    /\ Len(arg) = 2
    /\ \E t \in 1..2 : arg[t] \notin hmm.vocab
    /\ ret # Panic
    /\ Len(ret) = 2

----------------------------------------------------------------------------
\* C8: every predict returns as many tags as it was given tokens. For every
\* model reachable by new() and any number of train() calls and every input
\* of n tokens, HmmModel.predict, MaxEntModel.predict and
\* PerceptronModel.predict return exactly n tags, and viterbi_decode returns
\* a best_sequence of exactly n tags for n feature vectors.
C8_OneTagPerToken ==
    /\ op \in {"hmm_predict", "maxent_predict", "perceptron_predict"}
          => ret # Panic /\ Len(ret) = Len(arg)
    /\ op = "viterbi_decode" => Len(ret.best_sequence) = Len(arg)

----------------------------------------------------------------------------
\* C9: empty input is never an error. On an empty token list, trained or
\* not, HmmModel.predict, MaxEntModel.predict and PerceptronModel.predict
\* return an empty tag list and SpanModel.predict returns no spans;
\* viterbi_decode on no feature vectors returns an empty best_sequence and no
\* steps; tokens_to_spans on no tokens returns no spans; NerPipeline.analyze
\* on a text without tokens returns no tagged tokens and no entities.
C9_EmptyInEmptyOut ==
    /\ op \in {"hmm_predict", "maxent_predict", "perceptron_predict", "span_predict"}
          /\ arg = <<>>
          => ret = <<>>
    /\ op = "viterbi_decode" /\ arg = <<>>
          => ret.best_sequence = <<>> /\ ret.steps = <<>>
    /\ op = "tokens_to_spans" /\ arg.tagged = <<>>
          => ret = <<>>
    /\ op = "analyze" /\ tokenize_with_mode(arg, "Standard") = <<>>
          => ret.tagged = <<>> /\ ret.entities = <<>>

\* a trained HMM, which decodes any other input, was given no token
C9_Witness ==
    /\ op = "hmm_predict"
    /\ hmm.all_tags # <<>>
    /\ arg = <<>>
    /\ ret = <<>>

----------------------------------------------------------------------------
(* C11 *)

\* p + q for probabilities num / den
C11_Add(p, q) == [num |-> p.num * q.den + q.num * p.den, den |-> p.den * q.den]

RECURSIVE C11_Mass(_, _)
\* the sum of exp(probs[k]) over keys
C11_Mass(probs, keys) ==
    IF keys = {} THEN [num |-> 0, den |-> 1]
    ELSE LET k == CHOOSE x \in keys : TRUE
         IN C11_Add(probs[k], C11_Mass(probs, keys \ {k}))

C11_IsOne(p) == p.num = p.den

C11_StartNormalized(model) ==
    C11_IsOne(C11_Mass(model.start_probs, {model.all_tags[s] : s \in 1..Len(model.all_tags)}))

C11_TransitionNormalized(model, prev) ==
    C11_IsOne(C11_Mass(model.transition_probs,
                       {<<prev, model.all_tags[s]>> : s \in 1..Len(model.all_tags)}))

C11_EmissionNormalized(model, tag) ==
    C11_IsOne(C11_Mass(model.emission_probs,
                       {<<tag, w>> : w \in model.vocab \cup {UNK}}))

\* C11: after HmmModel::train every smoothed distribution sums to 1 over its
\* support: the start probabilities over the known tags, for every previous tag
\* the transition probabilities over the next tags, for every tag the emission
\* probabilities over the vocabulary and <UNK>.
C11_Normalized ==
    (op = "hmm_train" /\ hmm.all_tags # <<>>) =>
        /\ C11_StartNormalized(hmm)
        /\ \A s \in 1..Len(hmm.all_tags) :
              /\ C11_TransitionNormalized(hmm, hmm.all_tags[s])
              /\ C11_EmissionNormalized(hmm, hmm.all_tags[s])

----------------------------------------------------------------------------
(* C12 *)

RECURSIVE C12_PathScore(_, _, _, _)
\* start[seq[1]] + emission[seq[1], token 1] + the transitions and emissions
\* of positions 2..t of the tag sequence seq
C12_PathScore(model, tokens, seq, t) ==
    LET emit_p == GetOr(model.emission_probs, <<seq[t], hmm_token(model, tokens, t)>>, LogZero)
    IN IF t = 1
       THEN LogAdd(GetOr(model.start_probs, seq[1], LogZero), emit_p)
       ELSE LogAdd(C12_PathScore(model, tokens, seq, t - 1),
                   LogAdd(GetOr(model.transition_probs, <<seq[t - 1], seq[t]>>, LogZero),
                          emit_p))

\* C12: for every trained HMM and every non-empty token sequence, predict
\* returns a tag sequence that maximises start + emissions (of the token or
\* <UNK>) + transitions over all sequences of known tags of that length.
C12_HmmViterbiOptimal ==
    (op = "hmm_predict" /\ arg # <<>> /\ hmm.all_tags # <<>>) =>
        LET tags == {hmm.all_tags[s] : s \in 1..Len(hmm.all_tags)}
            n == Len(arg)
        IN /\ ret \in [1..n -> tags]
           /\ \A seq \in [1..n -> tags] :
                 ~LogGt(C12_PathScore(hmm, arg, seq, n), C12_PathScore(hmm, arg, ret, n))

\* a decode over two tags and two tokens in which the best path is not the
\* one that takes the best tag of each column on its own
C12_Witness ==
    /\ op = "hmm_predict"
    /\ Len(hmm.all_tags) = 2
    /\ Len(arg) = 2
    /\ ret # Panic
    /\ LET rows == hmm_viterbi(hmm, arg, 2)
       IN ret[1] # hmm.all_tags[hmm_best_last(rows[1], 2).idx]

----------------------------------------------------------------------------
(* C13 *)

\* the 1-based position of a tag in all_tags
C13_IndexOf(model, tag) ==
    CHOOSE s \in 1..Len(model.all_tags) : model.all_tags[s] = tag

\* the least position whose score no other position beats; score is a
\* function over 1..n_tags
C13_FirstBest(score, n_tags) ==
    CHOOSE s \in 1..n_tags :
        /\ \A s2 \in 1..n_tags : ~LogGt(score[s2], score[s])
        /\ \A s2 \in 1..(s - 1) : LogGt(score[s], score[s2])

\* all_tags is the set of the corpus' tags in strictly increasing byte order
C13_SortedTags(model, corpus) ==
    /\ {model.all_tags[s] : s \in 1..Len(model.all_tags)} = CorpusTags(corpus)
    /\ \A s \in 1..(Len(model.all_tags) - 1) :
          StrLess(model.all_tags[s], model.all_tags[s + 1])

\* the path is the one the trellis and the first-in-sorted-order rule fix
C13_FirstBestPath(model, tokens, path) ==
    LET n == Len(tokens)
        n_tags == Len(model.all_tags)
        rows == hmm_viterbi(model, tokens, n)
        last == [s \in 1..n_tags |-> rows[n][s].prob]
        into(t) == [p \in 1..n_tags |->
                      LogAdd(rows[t - 1][p].prob,
                             GetOr(model.transition_probs,
                                   <<model.all_tags[p], path[t]>>, LogZero))]
    IN /\ Len(path) = n
       /\ path[n] = model.all_tags[C13_FirstBest(last, n_tags)]
       /\ \A t \in 2..n : path[t - 1] = model.all_tags[C13_FirstBest(into(t), n_tags)]

\* C13: the HMM is deterministic. train leaves the tag list in sorted label
\* order whatever the order in which the tags were seen; predict returns the
\* one path fixed by the trellis and the rule that, among tags that tie for
\* the best score in the recursion or at termination, the earliest in sorted
\* order is taken.
C13_HmmDeterministic ==
    /\ op = "hmm_train" => C13_SortedTags(hmm, arg)
    /\ (op = "hmm_predict" /\ arg # <<>> /\ hmm.all_tags # <<>>) =>
          C13_FirstBestPath(hmm, arg, ret)

\* a model trained on a sentence that shows O before B-PER (O is the likelier
\* start), with B-PER first in all_tags, and a decode in which both tags tie
\* at termination
C13_Witness ==
    /\ op = "hmm_predict"
    /\ arg # <<>>
    /\ Len(hmm.all_tags) = 2
    /\ StrLess(hmm.all_tags[1], hmm.all_tags[2])
    /\ LogGt(hmm.start_probs[hmm.all_tags[2]], hmm.start_probs[hmm.all_tags[1]])
    /\ LET rows == hmm_viterbi(hmm, arg, Len(arg))
       IN /\ rows[Len(arg)][1].prob.num * rows[Len(arg)][2].prob.den
               = rows[Len(arg)][2].prob.num * rows[Len(arg)][1].prob.den
          /\ ret[Len(arg)] = hmm.all_tags[1]

----------------------------------------------------------------------------
(* C14 *)

\* the first tag of the sorted list tags whose score no other tag beats
C14_FirstBest(model, scores) ==
    model.tags[CHOOSE k \in 1..Len(model.tags) :
                  /\ \A j \in 1..Len(model.tags) : scores[model.tags[j]] <= scores[model.tags[k]]
                  /\ \A j \in 1..(k - 1) : scores[model.tags[j]] < scores[model.tags[k]]]

\* C14: for every trained MaxEnt model and every token, predict returns the
\* tag of highest raw linear score and, among tags that tie for it, the one
\* that comes first in the sorted tag list.
C14_MaxEntFirstOnTies ==
    (op = "maxent_predict" /\ arg # <<>> /\ maxent.tags # <<>>) =>
        LET feature_vectors == extract_features(TokensOf(arg), Gazetteers_new)
        IN /\ Len(ret) = Len(arg)
           /\ \A i \in 1..Len(arg) :
                 ret[i] = C14_FirstBest(maxent, compute_scores(maxent, feature_vectors[i]))

----------------------------------------------------------------------------
(* C15 *)

\* the n-th <<feature vector, true tag>> pair train processes, the passes over
\* the corpus laid end to end
C15_Nth(stream, n) == stream[((n - 1) % Len(stream)) + 1]

RECURSIVE C15_Run(_, _, _)
\* the models of the training loop, run extended up to total tokens: the model
\* before the first token, then the model after each token
C15_Run(run, stream, total) ==
    IF Len(run) > total THEN run
    ELSE LET nth == C15_Nth(stream, Len(run))
         IN C15_Run(Append(run, train_token(run[Len(run)], nth[1], nth[2])),
                    stream, total)

\* what one token may do to the weights: nothing when the prediction under the
\* live weights is the gold tag; otherwise, for every active feature f, plus
\* the feature's value on (f, gold) and minus it on (f, predicted), and
\* nothing on any other key (a missing key reads 0.0)
C15_MistakeDriven(before, after, fv, gold) ==
    LET pred == predict_single(before, fv)
        fs == fv.features
        delta(key, tag) == IF key[1] \in DOMAIN fs /\ key[2] = tag
                           THEN fs[key[1]] * before.scale ELSE 0
    IN \A key \in (DOMAIN before.weights) \cup (DOMAIN after.weights)
                    \cup ((DOMAIN fs) \X {gold, pred}) :
          GetOr(after.weights, key, 0) =
              GetOr(before.weights, key, 0)
              + (IF pred = gold THEN 0 ELSE delta(key, gold) - delta(key, pred))

\* every token of the run obeys C15_MistakeDriven
C15_EveryToken(run, stream) ==
    \A n \in 1..(Len(run) - 1) :
        C15_MistakeDriven(run[n], run[n + 1], C15_Nth(stream, n)[1], C15_Nth(stream, n)[2])

\* the predictions of the run that equal the gold tag
C15_Right(run, stream) ==
    {n \in 1..(Len(run) - 1) :
        predict_single(run[n], C15_Nth(stream, n)[1]) = C15_Nth(stream, n)[2]}

\* the run of train(corpus, iterations) from the model start
C15_RunOf(start, corpus, iterations) ==
    C15_Run(<<[start EXCEPT !.tags = SortedVec(CorpusTags(corpus))]>>,
            C3_Stream(corpus, 1), Len(C3_Stream(corpus, 1)) * iterations)

\* the run ends in the model that train finalizes
C15_IsRunOf(run, trained) == trained = finalize_weights(run[Len(run)])

\* C15: perceptron training is mistake-driven. Every token of a training run
\* whose prediction under the current, not averaged, weights equals the gold
\* tag changes no weight; every token whose prediction differs changes, for
\* every active feature f, weight[(f, gold)] by plus the feature's value and
\* weight[(f, predicted)] by minus it, and no other weight.
C15_PerceptronMistakeDriven ==
    [][ op' = "perceptron_train" =>
          /\ C15_IsRunOf(C15_RunOf(perc, arg'[1], arg'[2]), perc')
          /\ C15_EveryToken(C15_RunOf(perc, arg'[1], arg'[2]), C3_Stream(arg'[1], 1)) ]_vars

\* a training run on a fresh model with a token predicted right and a token
\* predicted wrong
C15_Witness ==
    /\ op = "perceptron_train"
    /\ calls = 1
    /\ C15_Right(C15_RunOf(PerceptronModel_new, arg[1], arg[2]), C3_Stream(arg[1], 1))
          \notin {{}, 1..(Len(C3_Stream(arg[1], 1)) * arg[2])}

----------------------------------------------------------------------------
(* C16 *)

\* the features and tags a weight can be asked for
C16_Features == CrfFeatures \cup {Flag("is_digit")}

C16_Tags == {Tag_all[k] : k \in 1..Tag_COUNT}

\* what the model holds for a (feature, tag) pair, 0.0 when nothing is held
C16_Weight(model, f, tag) ==
    IF EmissionKey(f, tag) \in DOMAIN model.emission_weights
    THEN model.emission_weights[EmissionKey(f, tag)]
    ELSE 0

\* a model that no setter has touched scores everything 0.0
C16_AllZero(model) ==
    /\ \A features \in ScoreVectors, tag \in C16_Tags :
          emission_score(model, features, tag) = 0
    /\ \A prev \in C16_Tags, next \in C16_Tags : transition_score(model, prev, next) = 0

\* set_emission(f, t, w): the pair reads w, every other pair and every
\* transition reads what it read before
C16_SetEmission(before, after, f, t, w) ==
    /\ \A f2 \in C16_Features, t2 \in C16_Tags :
          emission_score(after, FeatureVector(0, [x \in {f2} |-> 1]), t2) =
              IF f2 = f /\ t2 = t THEN w
              ELSE emission_score(before, FeatureVector(0, [x \in {f2} |-> 1]), t2)
    /\ \A prev \in C16_Tags, next \in C16_Tags :
          transition_score(after, prev, next) = transition_score(before, prev, next)

\* set_transition(from, to, w): the ordered pair reads w, every other pair and
\* every emission reads what it read before
C16_SetTransition(before, after, from, to, w) ==
    /\ \A prev \in C16_Tags, next \in C16_Tags :
          transition_score(after, prev, next) =
              IF prev = from /\ next = to THEN w ELSE transition_score(before, prev, next)
    /\ \A features \in ScoreVectors, tag \in C16_Tags :
          emission_score(after, features, tag) = emission_score(before, features, tag)

\* C16: CRF scoring treats a weight never set as 0.0. A new model scores
\* everything 0.0; a setter makes its own pair read the value given and leaves
\* the score of every other (feature, tag) and (prev, next) pair unchanged, so
\* transition_score is the value most recently set or 0.0; emission_score is
\* the sum over the vector's features of value times the weight held for
\* (feature, tag), 0.0 where none is held.
C16_CrfScoring ==
    /\ C16_AllZero(crf)
    /\ [][ /\ op' = "score_set_emission" =>
                C16_SetEmission(crf, crf', arg'[1], arg'[2], arg'[3])
           /\ op' = "score_set_transition" =>
                C16_SetTransition(crf, crf', arg'[1], arg'[2], arg'[3])
           /\ op' = "emission_score" =>
                ret' = SumOver(DOMAIN arg'[1].features,
                               [f \in DOMAIN arg'[1].features |->
                                   arg'[1].features[f] * C16_Weight(crf, f, arg'[2])])
           /\ op' = "transition_score" =>
                ret' = crf.transition_weights[index(arg'[1])][index(arg'[2])] ]_vars

\* a weight set twice, the second value other than the first, and the score of
\* a vector whose feature value is 2.0 asked for afterwards
C16_Witness ==
    /\ op = "emission_score"
    /\ calls = 2
    /\ Cardinality(DOMAIN crf.emission_weights) = 1
    /\ arg[1].features = [f \in {Flag("is_capitalized")} |-> 2]
    /\ ret = 10

----------------------------------------------------------------------------
(* C17 *)

\* the model's only non-zero weights are emission(is_capitalized, B-PER) = 5.0,
\* emission(is_capitalized, O) = -3.0 and transition(B-PER -> I-PER) = 3.0
C17_ExampleModel(model) ==
    /\ \A key \in DOMAIN model.emission_weights :
          model.emission_weights[key] # 0 =>
              key \in {EmissionKey(Flag("is_capitalized"), Begin("Per")),
                       EmissionKey(Flag("is_capitalized"), Outside)}
    /\ GetOr(model.emission_weights, EmissionKey(Flag("is_capitalized"), Begin("Per")), 0) = 5
    /\ GetOr(model.emission_weights, EmissionKey(Flag("is_capitalized"), Outside), 0) = -3
    /\ \A i \in 0..(Tag_COUNT - 1), j \in 0..(Tag_COUNT - 1) :
          model.transition_weights[i][j] =
              IF i = index(Begin("Per")) /\ j = index(Inside("Per")) THEN 3 ELSE 0

\* the two feature vectors [bias + is_capitalized, bias only]
C17_ExampleInput == <<CrfVector(0, TRUE), CrfVector(1, FALSE)>>

\* C17: with that model, decoding [bias + is_capitalized, bias only] returns a
\* best_sequence of length 2 whose token 0 is B-PER.
C17_CapitalizedIsPer ==
    (op = "example_decode" /\ C17_ExampleModel(crf) /\ arg = C17_ExampleInput) =>
        /\ Len(ret.best_sequence) = 2
        /\ ret.best_sequence[1] = Begin("Per")

\* the decode of the example has run
C17_Witness ==
    /\ op = "example_decode"
    /\ C17_ExampleModel(crf)
    /\ arg = C17_ExampleInput
    /\ calls = 3
    /\ ret.best_sequence = <<Begin("Per"), Inside("Per")>>

----------------------------------------------------------------------------
(* C18 *)

\* the model a fresh HMM becomes when trained on the single sentence
\* [(Lula, B-PER), (é, O), (presidente, O)]
C18_ExampleModel ==
    HmmModel_train(HmmModel_new, <<[annotations |-> ExampleAnnotations]>>)

C18_ExampleTokens == <<WordLula, WordE, WordPresidente>>

\* C18: training a fresh HMM on the single sentence [(Lula, B-PER), (é, O),
\* (presidente, O)] and then predicting [Lula, é, presidente] returns exactly
\* [B-PER, O, O].
C18_HmmExample ==
    (op = "example_hmm_predict" /\ hmm = C18_ExampleModel /\ arg = C18_ExampleTokens) =>
        ret = <<label(Begin("Per")), label(Outside), label(Outside)>>

\* the predict of the example has run on the model trained on the example
C18_Witness ==
    /\ op = "example_hmm_predict"
    /\ hmm.vocab = {WordLula, WordE, WordPresidente}
    /\ hmm.all_tags = <<label(Begin("Per")), label(Outside)>>
    /\ hmm.transition_probs[<<label(Outside), label(Outside)>>] = LogProb(2, 4)
    /\ hmm.emission_probs[<<label(Outside), WordPresidente>>] = LogProb(2, 6)
    /\ hmm.start_probs[label(Begin("Per"))] = LogProb(2, 3)
    /\ arg = C18_ExampleTokens
    /\ Len(ret) = 3

----------------------------------------------------------------------------
(* C19 *)

\* the probabilities share one non-zero denominator and their numerators add
\* up to it
C19_SumsToOne(probs) ==
    /\ \A i \in 1..Len(probs) : probs[i].den # 0
    /\ \E den \in {probs[i].den : i \in 1..Len(probs)} :
          /\ \A i \in 1..Len(probs) : probs[i].den = den
          /\ SumOver(1..Len(probs), [i \in 1..Len(probs) |-> probs[i].num]) = den

\* every probability is 1 / n
C19_Uniform(probs) ==
    \A i \in 1..Len(probs) : probs[i].num * Len(probs) = probs[i].den

\* what C19 asks of the result for the scores
C19_Distribution(scores, probs) ==
    /\ Len(probs) = Len(scores)
    /\ C19_SumsToOne(probs)
    /\ (\A i \in 1..Len(scores) : scores[i] = scores[1]) => C19_Uniform(probs)

\* C19 as stated: for any finite score vector scores_to_probs returns one
\* probability per score, the probabilities sum to 1.0, no division is by
\* zero, and equal scores give the uniform distribution.
C19_SoftmaxAnyVector ==
    op = "scores_to_probs" => C19_Distribution(arg, ret)

\* C19 amended: the same for every non-empty finite score vector; the empty
\* vector gives the empty vector, whose sum is 0.0.
C19_SoftmaxNonEmpty ==
    op = "scores_to_probs" =>
        IF arg = <<>> THEN ret = <<>> ELSE C19_Distribution(arg, ret)

\* a vector with a score that underflows to 0.0 beside the maximum, and a
\* vector of equal scores
C19_Witness ==
    /\ op = "scores_to_probs"
    /\ Len(arg) = 3
    /\ \/ \E i \in 1..3 : ret[i].num = 0
       \/ arg[1] = arg[2] /\ arg[2] = arg[3]

----------------------------------------------------------------------------
(* C20 *)

\* the contiguous spans (start, end) of n tokens with end - start <= 6
C20_Candidates(n) ==
    {c \in (0..n) \X (0..n) : c[1] < c[2] /\ c[2] - c[1] <= 6}

\* the best label of the span c of the tokens
C20_BestLabel(model, tokens, c) ==
    span_predict_single(model,
                        extract_span_features(TokensOf(tokens), c[1], c[2], Gazetteers_new))

\* C20: for n input tokens SpanModel.predict classifies every contiguous span
\* (start, end) with 0 <= start < end <= n and end - start <= 6 exactly once
\* and returns exactly those whose best label is not O, each with its label;
\* overlapping and nested spans are all kept.
C20_SpanPredictAllCandidates ==
    op = "span_predict" =>
        /\ \A i \in 1..Len(ret) : <<ret[i].start, ret[i].end>> \in C20_Candidates(Len(arg))
        /\ \A c \in C20_Candidates(Len(arg)) :
              LET at == {i \in 1..Len(ret) : ret[i].start = c[1] /\ ret[i].end = c[2]}
                  best == C20_BestLabel(span, arg, c)
              IN /\ Cardinality(at) = IF best = LabelO THEN 0 ELSE 1
                 /\ \A i \in at : ret[i].label = best

----------------------------------------------------------------------------
(* C24 *)

\* a model with one emission weight and one transition weight, told apart
\* from every weight never set
C24_Model(t, from, to) ==
    set_transition(set_emission(CrfModel_new, Flag("bias"), t, 5), from, to, 12)

\* C24: Tag::index maps the nine tags one-to-one onto 0..8, Tag::COUNT is
\* 9 = 2*4+1, and Tag::all() lists the tags in index order, so column k of the
\* emission table and row and column k of the transition matrix stand for the
\* tag Tag::all()[k].
C24_IndexOrder ==
    /\ Tag_COUNT = 2 * Cardinality(EntityCategory) + 1
    /\ Len(Tag_all) = Tag_COUNT
    /\ Cardinality(Tag) = Tag_COUNT
    /\ {index(t) : t \in Tag} = 0..(Tag_COUNT - 1)
    /\ \A t1 \in Tag, t2 \in Tag : index(t1) = index(t2) => t1 = t2
    /\ \A k \in 0..(Tag_COUNT - 1) : index(Tag_all[k + 1]) = k
    /\ op = "index" => /\ ret \in 0..(Tag_COUNT - 1)
                       /\ Tag_all[ret + 1] = arg
                       /\ \A from \in Tag :
                             LET model == C24_Model(arg, from, arg)
                                 emission == compute_emission_scores(
                                                 model, <<CrfVector(0, FALSE)>>)
                             IN /\ \A k \in 0..(Tag_COUNT - 1) :
                                      emission[1][k + 1] = IF k = ret THEN 5 ELSE 0
                                /\ \A i \in 0..(Tag_COUNT - 1), j \in 0..(Tag_COUNT - 1) :
                                      model.transition_weights[i][j] =
                                          IF i = index(from) /\ j = ret THEN 12 ELSE 0

\* index has been asked for the last tag of Tag::all()
C24_Witness ==
    /\ op = "index"
    /\ arg = Inside("Misc")
    /\ ret = 8

----------------------------------------------------------------------------
(* C25 *)

\* the key names prefix<n>= and suffix<n>=
C25_Prefix(n) == CASE n = 2 -> "prefix2=" [] n = 3 -> "prefix3=" [] n = 4 -> "prefix4="

C25_Suffix(n) == CASE n = 2 -> "suffix2=" [] n = 3 -> "suffix3=" [] n = 4 -> "suffix4="

\* the keys of a feature vector whose name is kind
C25_KeysOf(fv, kind) == {f \in DOMAIN fv.features : f[1] = kind}

\* the characters a..b of the word, lower-cased
C25_Lower(word, a, b) == [k \in 1..(b - a + 1) |-> to_lowercase_char(word[a + k - 1])]

\* what C25 asks of the feature vector of one word
C25_Affixes(word, fv) ==
    \A n \in 2..4 :
        IF Len(word) >= n
        THEN /\ C25_KeysOf(fv, C25_Prefix(n)) = {<<C25_Prefix(n), C25_Lower(word, 1, n)>>}
             /\ C25_KeysOf(fv, C25_Suffix(n)) =
                    {<<C25_Suffix(n), C25_Lower(word, Len(word) - n + 1, Len(word))>>}
             /\ \A f \in C25_KeysOf(fv, C25_Prefix(n)) \cup C25_KeysOf(fv, C25_Suffix(n)) :
                   fv.features[f] = 1
        ELSE /\ C25_KeysOf(fv, C25_Prefix(n)) = {}
             /\ C25_KeysOf(fv, C25_Suffix(n)) = {}

\* C25: for every token and every n in {2, 3, 4}, a token of at least n
\* characters has prefix<n>= its first n characters lower-cased and suffix<n>=
\* its last n characters lower-cased, each with value 1.0, and a shorter token
\* has no prefix<n> or suffix<n> key; Petrobras has prefix2=pe and suffix3=ras.
C25_PrefixSuffix ==
    op = "extract_features" =>
        /\ Len(ret) = Len(arg)
        /\ \A i \in 1..Len(arg) :
              /\ C25_Affixes(arg[i], ret[i])
              /\ arg[i] = WordPetrobras =>
                    /\ <<"prefix2=", <<"p", "e">>>> \in DOMAIN ret[i].features
                    /\ <<"suffix3=", <<"r", "a", "s">>>> \in DOMAIN ret[i].features

\* the features of Petrobras and of a word of three characters, which has
\* affixes of 2 and 3 but not of 4
C25_Witness ==
    /\ op = "extract_features"
    /\ arg = <<WordPetrobras, <<"S", "a", "o">>>>
    /\ <<"suffix3=", <<"s", "a", "o">>>> \in DOMAIN ret[2].features
    /\ <<"prefix4=", <<"p", "e", "t", "r">>>> \in DOMAIN ret[1].features

----------------------------------------------------------------------------
(* C26 *)

\* the position in Tag::all() of the tag with the label lbl
C26_TagOf(lbl) == CHOOSE k \in 1..Tag_COUNT : label(Tag_all[k]) = lbl

\* one entry per token, token_index its position, one TagScore per tag in
\* Tag::all() order
C26_Shape(result, n) ==
    /\ Len(result.steps) = n
    /\ Len(result.best_sequence) = n
    /\ \A i \in 1..n :
          /\ result.steps[i].token_index = i - 1
          /\ Len(result.steps[i].scores) = Tag_COUNT
          /\ \A t \in 1..Tag_COUNT : result.steps[i].scores[t].tag = label(Tag_all[t])

\* every TagScore of a step after the first is the previous step's score of
\* its best_prev plus its transition plus its emission, minus 10.0 exactly
\* when best_prev -> tag is not a legal BIO transition
C26_Scores(model, result, fvs) ==
    \A i \in 2..Len(result.steps) : \A t \in 1..Tag_COUNT :
        LET cell == result.steps[i].scores[t]
            prev == C26_TagOf(cell.best_prev)
        IN /\ cell.emission = emission_score(model, fvs[i], Tag_all[t])
           /\ cell.transition = transition_score(model, Tag_all[prev], Tag_all[t])
           /\ cell.score = result.steps[i - 1].scores[prev].score + cell.transition
                             + cell.emission
                             - (IF is_valid_transition(Tag_all[prev], Tag_all[t])
                                THEN 0 ELSE 10)

\* each step's best_score is the maximum of its scores and is the score of its
\* best_tag; the result's best_score is the last step's
C26_Best(result) ==
    /\ \A i \in 1..Len(result.steps) :
          LET step == result.steps[i]
          IN /\ \A t \in 1..Tag_COUNT : step.scores[t].score <= step.best_score
             /\ step.scores[C26_TagOf(step.best_tag)].score = step.best_score
    /\ result.best_score = result.steps[Len(result.steps)].best_score

\* best_sequence[i] is the best_prev recorded for best_sequence[i+1] in step i+1
C26_BackPointers(result) ==
    \A i \in 1..(Len(result.steps) - 1) :
        label(result.best_sequence[i]) =
            result.steps[i + 1].scores[index(result.best_sequence[i + 1]) + 1].best_prev

\* C26: the Viterbi trace is consistent with the result: one step per token
\* and one TagScore per tag, every score after the first step rebuilt from the
\* previous step's score of its best_prev, its transition, its emission and
\* the BIO penalty, every step's best_score the maximum of its scores, the
\* result's best_score the last step's, and best_sequence following the
\* recorded best_prev.
C26_TraceConsistent ==
    (op = "viterbi_decode" /\ arg # <<>>) =>
        /\ C26_Shape(ret, Len(arg))
        /\ C26_Scores(crf, ret, arg)
        /\ C26_Best(ret)
        /\ C26_BackPointers(ret)

\* a decode of two tokens in which some TagScore of the second step carries
\* the penalty and some does not
C26_Witness ==
    /\ op = "viterbi_decode"
    /\ Len(arg) = 2
    /\ calls = 1
    /\ \E t \in 1..Tag_COUNT :
          ~is_valid_transition(Tag_all[C26_TagOf(ret.steps[2].scores[t].best_prev)],
                               Tag_all[t])
    /\ \E t \in 1..Tag_COUNT :
          /\ is_valid_transition(Tag_all[C26_TagOf(ret.steps[2].scores[t].best_prev)],
                                 Tag_all[t])
          /\ ret.steps[2].scores[t].transition # 0

----------------------------------------------------------------------------
(* C27 *)

\* the tag at 0-based position p is a B- or an I- tag
C27_Entity(tags, p) ==
    starts_with(tags[p + 1], <<"B", "-">>) \/ starts_with(tags[p + 1], <<"I", "-">>)

\* the category of the tag at 0-based position p
C27_Category(tags, p) == SubSeq(tags[p + 1], 3, Len(tags[p + 1]))

\* the positions where a span starts: every B- tag, and every I- tag with no
\* open span or with another category than the open span
C27_Starts(tags) ==
    { p \in 0..(Len(tags) - 1) :
        \/ starts_with(tags[p + 1], <<"B", "-">>)
        \/ /\ starts_with(tags[p + 1], <<"I", "-">>)
           /\ \/ p = 0
              \/ ~C27_Entity(tags, p - 1)
              \/ C27_Category(tags, p - 1) # C27_Category(tags, p) }

C27_Example ==
    << <<"O">>, <<"B", "-", "P", "E", "R">>, <<"I", "-", "P", "E", "R">>, <<"O">>,
       <<"B", "-", "L", "O", "C">> >>

\* C27: bio_to_spans returns non-empty, pairwise disjoint spans in increasing
\* order, each labelled with the one category of all its tags, covering
\* exactly the positions with a B- or I- tag; a span starts at every B- tag and
\* at every I- tag with no open span or another category, and nowhere else;
\* [O, B-PER, I-PER, O, B-LOC] yields (1, 3, PER) and (4, 5, LOC).
C27_BioToSpans ==
    (op = "bio_to_spans") =>
        /\ \A k \in 1..Len(ret) :
              /\ 0 <= ret[k].start
              /\ ret[k].start < ret[k].end
              /\ ret[k].end <= Len(arg)
              /\ \A p \in ret[k].start..(ret[k].end - 1) :
                    C27_Entity(arg, p) /\ C27_Category(arg, p) = ret[k].label
        /\ \A k \in 1..(Len(ret) - 1) : ret[k].end <= ret[k + 1].start
        /\ \A p \in 0..(Len(arg) - 1) :
              C27_Entity(arg, p) <=>
                  \E k \in 1..Len(ret) : ret[k].start <= p /\ p < ret[k].end
        /\ { ret[k].start : k \in 1..Len(ret) } = C27_Starts(arg)
        /\ (arg = C27_Example =>
              ret = << Span(1, 3, <<"P", "E", "R">>), Span(4, 5, <<"L", "O", "C">>) >>)

\* the example of the test
C27_Witness ==
    /\ op = "bio_to_spans"
    /\ arg = C27_Example
    /\ Len(ret) = 2

\* a sequence where an I- tag opens a span and an I- tag of another category
\* closes one and opens the next
C27_WitnessInside ==
    /\ op = "bio_to_spans"
    /\ arg = << <<"I", "-", "P", "E", "R">>, <<"I", "-", "L", "O", "C">>,
                <<"I", "-", "L", "O", "C">> >>
    /\ ret = << Span(0, 1, <<"P", "E", "R">>), Span(1, 3, <<"L", "O", "C">>) >>

----------------------------------------------------------------------------
(* C30 *)

\* the tokens of a corpus
C30_Tokens(corpus) == Len(C3_Stream(corpus, 1))

\* what holds of the model between two tokens of the training loop, n tokens
\* having been processed
C30_Between(model, n) ==
    /\ model.steps = n
    /\ \A key \in DOMAIN model.last_update : model.last_update[key] <= model.steps
    /\ (DOMAIN model.total_weights) \cup (DOMAIN model.last_update)
          \subseteq DOMAIN model.weights

C30_Throughout(run) == \A n \in 1..Len(run) : C30_Between(run[n], n - 1)

\* C30: throughout train on a fresh model the step counter grows by one per
\* processed token, no last_update value exceeds the step counter, every key
\* of total_weights or last_update is a key of weights, and after
\* train(corpus, k) the step counter is k times the tokens of the corpus and
\* total_weights and last_update are empty.
C30_PerceptronCounters ==
    [][ (op' = "perceptron_train" /\ perc = PerceptronModel_new) =>
          /\ C15_IsRunOf(C15_RunOf(perc, arg'[1], arg'[2]), perc')
          /\ Len(C15_RunOf(perc, arg'[1], arg'[2])) = arg'[2] * C30_Tokens(arg'[1]) + 1
          /\ C30_Throughout(C15_RunOf(perc, arg'[1], arg'[2]))
          /\ perc'.steps = arg'[2] * C30_Tokens(arg'[1])
          /\ perc'.total_weights = EmptyMap
          /\ perc'.last_update = EmptyMap ]_vars

\* a model of the run holds a key last updated after the first token and
\* before the current step
C30_Lagging(run) ==
    \E n \in 1..Len(run) : \E key \in DOMAIN run[n].last_update :
        0 < run[n].last_update[key] /\ run[n].last_update[key] < run[n].steps

\* two passes over a two-token sentence on a fresh model, with such a key
C30_Witness ==
    /\ op = "perceptron_train"
    /\ calls = 1
    /\ arg[2] = 2
    /\ C30_Tokens(arg[1]) = 2
    /\ perc.steps = 4
    /\ C30_Lagging(C15_RunOf(PerceptronModel_new, arg[1], arg[2]))

----------------------------------------------------------------------------
(* C22 *)

\* the phase of an event between TokenizationDone and Done, 0 for any other
C22_Phase(event) ==
    CASE event.kind = "FeaturesComputed" -> 1
      [] event.kind = "RuleApplied"      -> 2
      [] event.kind = "ViterbiStep"      -> 3
      [] event.kind = "TagAssigned"      -> 4
      [] OTHER                           -> 0

\* the positions of the events of a kind
C22_Of(events, kind) == {k \in 1..Len(events) : events[k].kind = kind}

\* the TagAssigned events are one per token, in token-index order
C22_OnePerToken(events, total) ==
    LET assigned == SelectSeq(events, LAMBDA e : e.kind = "TagAssigned")
    IN /\ Len(assigned) = total
       /\ \A i \in 1..total : assigned[i].token_index = i - 1

\* C22: for every text, algorithm mode and tokenizer mode the events of
\* analyze_streaming start with the only TokenizationDone and end with the
\* only Done; between them come FeaturesComputed, RuleApplied, ViterbiStep
\* and TagAssigned events only, in that order of kinds; and when the text has
\* tokens there is one TagAssigned per token, in token-index order.
C22_EventOrder ==
    (op = "analyze_streaming") =>
        /\ Len(ret) >= 2
        /\ C22_Of(ret, "TokenizationDone") = {1}
        /\ C22_Of(ret, "Done") = {Len(ret)}
        /\ ret[1].tokens = tokenize_with_mode(arg.text, arg.tokenizer_mode)
        /\ \A k \in 2..(Len(ret) - 1) : C22_Phase(ret[k]) > 0
        /\ \A j, k \in 2..(Len(ret) - 1) : j < k => C22_Phase(ret[j]) <= C22_Phase(ret[k])
        /\ (ret[1].tokens # <<>> => C22_OnePerToken(ret, Len(ret[1].tokens)))

\* a Hybrid run over two tokens that sends events of all six kinds
C22_Witness ==
    /\ op = "analyze_streaming"
    /\ arg.mode = "Hybrid"
    /\ Len(ret[1].tokens) = 2
    /\ \A kind \in {"FeaturesComputed", "RuleApplied", "ViterbiStep", "TagAssigned"} :
          C22_Of(ret, kind) # {}

\* runs of the other tokenizer modes and of the other algorithms, with tokens
C22_WitnessModes ==
    /\ op = "analyze_streaming"
    /\ arg.mode = "SpanBased"
    /\ arg.tokenizer_mode = "Aggressive"
    /\ Len(ret[1].tokens) = 3

----------------------------------------------------------------------------
(* C23 *)

\* the tagged tokens of the Done event of a run
C23_Tagged(events) == events[Len(events)].tagged_tokens

\* the rule matches and the Viterbi tags of the tokens, on the pipeline's model
C23_Rules(tokens) ==
    RuleEngine_apply(NerModel(crf, hmm, maxent, perc, span).rule_engine, tokens)

C23_Viterbi(tokens) ==
    viterbi_decode(crf, extract_features(tokens,
                                         NerModel(crf, hmm, maxent, perc, span).gazetteers_cache))
        .best_sequence

\* token i received the rule's tag and confidence
C23_FromRule(tagged, rules, i) ==
    tagged[i].tag = rules[i].tag /\ tagged[i].confidence = rules[i].confidence

\* the TagAssigned events name the tags of the tagged tokens
C23_Assigned(events, tagged) ==
    LET assigned == SelectSeq(events, LAMBDA e : e.kind = "TagAssigned")
    IN /\ Len(assigned) = Len(tagged)
       /\ \A i \in 1..Len(tagged) : assigned[i].tag = label(tagged[i].tag)

\* C23: the final tag of a token is chosen by the mode. Hybrid: the rule's tag
\* and confidence where a rule matched, the Viterbi tag elsewhere. CrfOnly: no
\* RuleApplied event and the Viterbi tag everywhere. RulesOnly: the rule's tag
\* where a rule matched, Outside elsewhere. FeaturesOnly: Outside everywhere
\* and no entity.
C23_TagByMode ==
    (op = "analyze_streaming" /\ ret[1].tokens # <<>>
       /\ arg.mode \in {"Hybrid", "CrfOnly", "RulesOnly", "FeaturesOnly"}) =>
        LET tokens == ret[1].tokens
            tagged == C23_Tagged(ret)
            rules == C23_Rules(tokens)
            decoded == C23_Viterbi(tokens)
        IN /\ Len(tagged) = Len(tokens)
           /\ C23_Assigned(ret, tagged)
           /\ \A i \in 1..Len(tokens) :
                 /\ tagged[i].token = tokens[i]
                 /\ CASE arg.mode = "Hybrid" ->
                            IF rules[i].some THEN C23_FromRule(tagged, rules, i)
                            ELSE tagged[i].tag = decoded[i]
                      [] arg.mode = "CrfOnly" -> tagged[i].tag = decoded[i]
                      [] arg.mode = "RulesOnly" ->
                            IF rules[i].some THEN C23_FromRule(tagged, rules, i)
                            ELSE tagged[i].tag = Outside
                      [] arg.mode = "FeaturesOnly" -> tagged[i].tag = Outside
           /\ (arg.mode \in {"CrfOnly", "FeaturesOnly"} => C22_Of(ret, "RuleApplied") = {})
           /\ (arg.mode = "FeaturesOnly" => ret[Len(ret)].entities = <<>>)

\* a Hybrid run where a rule matched a token the decoder tags otherwise, and a
\* token without a match gets an entity tag from the decoder
C23_Witness ==
    /\ op = "analyze_streaming"
    /\ arg.mode = "Hybrid"
    /\ Len(ret[1].tokens) >= 2
    /\ \E i \in 1..Len(ret[1].tokens) :
          /\ C23_Rules(ret[1].tokens)[i].some
          /\ C23_Rules(ret[1].tokens)[i].tag # C23_Viterbi(ret[1].tokens)[i]
    /\ \E i \in 1..Len(ret[1].tokens) : ~C23_Rules(ret[1].tokens)[i].some

\* a CrfOnly run over a text a rule would match, tagged by the decoder with an
\* entity
C23_WitnessCrfOnly ==
    /\ op = "analyze_streaming"
    /\ arg.mode = "CrfOnly"
    /\ \E i \in 1..Len(ret[1].tokens) :
          /\ C23_Rules(ret[1].tokens)[i].some
          /\ C23_Tagged(ret)[i].tag = Begin("Per")

----------------------------------------------------------------------------
(* C29 *)

\* the Done events of a run
C29_Dones(events) == SelectSeq(events, LAMBDA e : e.kind = "Done")

\* analyze_with_mode has returned what the single Done event of the run
\* carried, one tagged token per token of the input
C29_ReturnedRight ==
    (inflight.pc = "returned") =>
        /\ Len(C29_Dones(inflight.events)) = 1
        /\ ret.tagged = C29_Dones(inflight.events)[1].tagged_tokens
        /\ ret.entities = C29_Dones(inflight.events)[1].entities
        /\ Len(ret.tagged) = Len(tokenize_with_mode(arg.text, arg.tokenizer_mode))

\* no send waits for the receiver: while analyze_streaming has events left, the
\* next send can be taken, whatever the queue holds
C29_NeverBlocks ==
    (inflight.pc = "streaming" /\ Len(inflight.chan.queue) < Len(inflight.events)) =>
        ENABLED Step_send

\* the receive loop never waits on a channel that can get no more events
C29_LoopEnds ==
    (inflight.pc = "receiving") =>
        /\ inflight.chan.senders = 0
        /\ mpsc_recv(inflight.chan) # "blocked"

\* C29: analyze_with_mode always returns. analyze_streaming never blocks on
\* sending; its Sender, the only one, is gone when it returns, so the receive
\* loop ends; and what is returned is what the single Done event carried, one
\* tagged token per token of the input.
C29_AlwaysReturns ==
    /\ [](C29_ReturnedRight /\ C29_NeverBlocks /\ C29_LoopEnds)
    /\ (inflight.pc = "streaming") ~> (inflight.pc = "returned")

\* a call over three tokens has returned after a receive loop over a run of
\* more than three events
C29_Witness ==
    /\ inflight.pc = "returned"
    /\ op = "return"
    /\ Len(ret.tagged) = 3
    /\ Len(inflight.events) > 5
    /\ ret.entities # <<>>

----------------------------------------------------------------------------
(* C21 *)

\* what has arrived on the channel of call c is the beginning of a sequence
\* the call sends when it runs alone on the pipeline, and the whole of one
\* once the call has returned
C21_AsAlone(c) ==
    LET call == inflight.callers[c]
        received == inflight.channels[c]
        alone == runs_now(call.args)
    IN /\ \E r \in alone : Len(received) <= Len(r) /\ SubSeq(r, 1, Len(received)) = received
       /\ (call.returned => received \in alone)

\* C21: callers of analyze_streaming on one shared pipeline need no lock. No
\* step of a call changes a model of the pipeline, and under every
\* interleaving what a call sends on its own channel is a sequence the same
\* call sends when it runs alone.
C21_SharedPipeline ==
    /\ [](inflight.pc = "shared" => \A c \in 1..Len(inflight.callers) : C21_AsAlone(c))
    /\ [][inflight.pc = "shared" => UNCHANGED models]_vars

\* two calls ran at once: the first has returned with all its events on its
\* channel while the second, begun before that, is part of the way through
C21_Witness ==
    /\ inflight.pc = "shared"
    /\ Len(inflight.callers) = 2
    /\ inflight.callers[1].args.mode = "MaxEnt"
    /\ inflight.callers[2].args.mode = "Hmm"
    /\ inflight.callers[1].returned
    /\ ~inflight.callers[2].returned
    /\ Len(inflight.channels[1]) > 1
    /\ Len(inflight.channels[2]) > 1

----------------------------------------------------------------------------
(* C28 *)

\* the messages that carry the events, in their order
C28_Json(events) == [i \in 1..Len(events) |-> to_json(events[i])]

\* the connection is serving a text message whose trimmed text is not empty
C28_Serving == inflight.pc \in {"task", "sending", "recv", "ended"} /\ inflight.args # <<>>

\* nothing reaches the client while the task runs; once it has finished, what
\* the task sent is a whole run of the pipeline, from TokenizationDone to
\* Done, the client has the beginning of it in its order, the rest waits in
\* that order, and the client has all of it when the handler is back at recv
C28_Forwards ==
    C28_Serving =>
        /\ inflight.task = "running" => inflight.out = <<>> /\ inflight.pc = "task"
        /\ inflight.task = "finished" =>
              /\ inflight.chan \in runs_now(inflight.args)
              /\ inflight.chan[1].kind = "TokenizationDone"
              /\ inflight.chan[Len(inflight.chan)].kind = "Done"
              /\ \/ inflight.pc = "task" /\ inflight.out = <<>>
                 \/ /\ inflight.failed = "none"
                    /\ inflight.out \o C28_Json(inflight.events) = C28_Json(inflight.chan)
                    /\ inflight.events = <<>> <=> inflight.pc \in {"recv", "ended"}
                 \/ /\ inflight.failed = "event"
                    /\ inflight.out \o C28_Json(inflight.events)
                         = C28_Json(SubSeq(inflight.chan, 1, Len(inflight.out))
                                    \o SubSeq(inflight.chan, Len(inflight.out) + 2,
                                              Len(inflight.chan)))

\* after a panic of the task the handler tries one Error message, sends none
\* of the events the task sent before, and is back at recv
C28_Panic ==
    inflight.pc = "task" /\ inflight.task = "panicked"
        => /\ inflight'.pc = "recv"
           /\ inflight'.out \in {<<ErrorMessage>>, <<>>}
           /\ inflight'.events = <<>>
           /\ inflight'.out = <<>> <=> inflight'.failed = "Error"

\* a text message with an empty trimmed text starts no task and sends nothing
C28_EmptyText ==
    op' = "recv_text" /\ trim(arg'.text) = <<>>
        => /\ inflight'.pc = "recv"
           /\ inflight'.task = "none"
           /\ inflight'.out = <<>>

\* a failed send of an event ends the handler; a failed send of the Error
\* message or of a Pong leaves it at recv
C28_FailedSend ==
    /\ inflight.failed = "event" => inflight'.pc = "ended" /\ inflight'.failed = "event"
    /\ inflight'.failed = "event" => inflight'.pc = "ended"
    /\ inflight'.failed \in {"Error", "Pong"} /\ inflight'.failed # inflight.failed
          => inflight'.pc = "recv"

\* every failed send ends the handler
C28_AnyFailedSend ==
    inflight'.failed # "none" => inflight'.pc = "ended"

\* C28 as stated: on a WebSocket connection the handler forwards the events of
\* the run of each non-empty text message in the order produced and only
\* after the run has finished, answers a panic of the task with one Error
\* message and none of the events and keeps serving, sends nothing for an
\* empty text, and is ended by a failed send
C28_HandlerAsStated ==
    /\ [](inflight.pc # "none" => C28_Forwards)
    /\ [][inflight.pc # "none" => C28_Panic /\ C28_EmptyText /\ C28_AnyFailedSend]_vars

\* C28, amended: the same, where the failed send that ends the handler is the
\* send of a pipeline event; a failed send of the Error message or of a Pong is
\* dropped and the handler goes on to the next message
C28_Handler ==
    /\ [](inflight.pc # "none" => C28_Forwards)
    /\ [][inflight.pc # "none" => C28_Panic /\ C28_EmptyText /\ C28_FailedSend]_vars

\* the task of the first message panicked, and the run of the second has
\* reached the client whole
C28_Witness ==
    /\ inflight.pc = "recv"
    /\ inflight.served = 2
    /\ inflight.panics = 1
    /\ inflight.task = "finished"
    /\ op = "send_event"
    /\ Len(inflight.out) > 2
    /\ inflight.out = C28_Json(inflight.chan)

============================================================================
